---- MODULE Spec2Model ----
(***************************************************************************)
(* A model of sql-helper: the parameter annotation scanner, the document   *)
(* and operation splitter, the operation builder (Operation::new driven by *)
(* OperationGroup::parse) and the live validator (Operation::is_valid      *)
(* driven by run_tests), together with the test the query macro emits.     *)
(*                                                                         *)
(* Three specifications share the variables:                               *)
(*   Spec      the database-driven loops; the database's replies to        *)
(*             prepare and execute are the nondeterministic inputs;        *)
(*   SpecText  the text pipeline: headers, bodies, directives, statements; *)
(*   SpecScan  the two parameter annotation scanners.                      *)
(* Indexes that the program reports (statement_index, param_index) are     *)
(* kept 0-based as in the source; TLA+ sequences are 1-based, so element   *)
(* i of a Rust vector is seq[i + 1].                                       *)
(***************************************************************************)
EXTENDS Integers, Sequences, FiniteSets, TLC

VARIABLES
    \* ---- database-driven loops (Spec) ----
    impl,               \* which loop runs: "new", "old" or "test"
    nStmts,             \* nStmts[o]: number of statements of operation o
    opIdx,              \* index of the operation being processed (1-based)
    stmtIdx,            \* statement_index / index of the current step (0-based)
    pc,                 \* position inside the loop
    curParams,          \* prepared_statement.params() of the current statement
    operation_params,   \* Operation::new: the running parameter vector
    is_valid,           \* Operation::is_valid: the flag it returns
    all_valid,          \* run_tests: AND of the flags so far
    executed,           \* statement indexes of this operation given to execute
    reported,           \* statement indexes of this operation reported as failed
    dbCalls,            \* prepare/execute calls made for this operation
    lastReply,          \* the database's latest reply
    opFailure,          \* first hard failure of the current operation, or NoFailure
    outcomes,           \* per finished operation: "ok" or "failed"
    result,             \* what the whole run returned, or Running
    statement_params,   \* what prepare reported for each statement of the operation so far
    \* ---- text pipeline (SpecText) ----
    doc,                \* the source document, a sequence of characters
    tImpl,              \* "parse" (crates/sql-helper) or "try_from" (src/src)
    tPc,                \* position inside OperationGroup parsing
    tHeaders,           \* captured header names
    tBodies,            \* bodies[1..]
    tOps,               \* operations pushed so far
    tResult,            \* Ok / error of the parse, or Running
    \* ---- annotation scanners (SpecScan) ----
    sText,              \* the SQL text given to the scanner
    sImpl,              \* "get_param_types" or "query"
    sOptional,          \* query macro: the optional_params of its input
    sOut,               \* the scanner's result, or ScanIdle
    \* ---- emitted bindings (SpecBind) ----
    bBody,              \* the body of one operation, a sequence of characters
    bParams,            \* Operation::params, the database's types
    bPc,                \* "operators", "tokens" or "done"
    bOperators,         \* the collected operators, or the error
    bFields,            \* the fields parameter_tokens emits
    \* ---- synthetic values (SpecData) ----
    gImpl,              \* "operation" (Operation::data_for_type), "lib" or "is_valid"
    gType,              \* the parameter type values are generated for
    clock,              \* the wall clock
    gCalls,             \* the values the calls made so far returned
    \* ---- shared test database (SpecTeardown) ----
    COUNTER,            \* static COUNTER: AtomicU32
    CLIENT,             \* static CLIENT: OnceLock, "unset" or "set"
    container,          \* the docker container: "absent", "running" or "removed"
    tdPc,               \* tdPc[t]: where test t is
    tdRemovals,         \* how often `docker rm --force test-database` ran
    \* ---- migrations (SpecMigrations) ----
    mListing,           \* the directory's entries in the order read_dir yields them
    mEntries,           \* `entries` of perform_migrations
    mIdx,               \* position of the `for entry in entries` loop
    mPc,                \* "start", "read", "execute" or "done"
    mCalls,             \* the batch_execute calls the client received, in order
    mResult,            \* what perform_migrations returned
    \* ---- SqlError (SpecError) ----
    eSelf,              \* the Result<T, postgres::Error> the caller starts from
    eChain,             \* the fk_violation / unique_violation calls made on it, in order
    \* ---- the command line tool (SpecDatabase) ----
    dCommand,           \* cli.command: "GenerateBindings" or "StartDatabase"
    dOption,            \* whether `target` resp. `migrations` was given
    dPc,                \* where main is
    dElapsed,           \* rounds of the connection loop that have passed
    dContainer,         \* the docker container: "absent", "running" or "removed"
    dRemoveRuns,        \* how often `docker rm --force` was run
    dResult             \* what main returned, or "running"

dbVars   == <<impl, nStmts, opIdx, stmtIdx, pc, curParams, operation_params,
              is_valid, all_valid, executed, reported, dbCalls, lastReply, opFailure,
              outcomes, result, statement_params>>
textVars == <<doc, tImpl, tPc, tHeaders, tBodies, tOps, tResult>>
scanVars == <<sText, sImpl, sOptional, sOut>>
bindVars == <<bBody, bParams, bPc, bOperators, bFields>>
dataVars == <<gImpl, gType, clock, gCalls>>
teardownVars == <<COUNTER, CLIENT, container, tdPc, tdRemovals>>
migrationsVars == <<mListing, mEntries, mIdx, mPc, mCalls, mResult>>
errorVars == <<eSelf, eChain>>
databaseVars == <<dCommand, dOption, dPc, dElapsed, dContainer, dRemoveRuns, dResult>>
vars     == <<dbVars, textVars, scanVars, bindVars, dataVars, teardownVars, migrationsVars, errorVars, databaseVars>>

\* What the actions of one specification leave alone.
notDbVars   == <<textVars, scanVars, bindVars, dataVars, teardownVars, migrationsVars, errorVars, databaseVars>>
notTextVars == <<dbVars, scanVars, bindVars, dataVars, teardownVars, migrationsVars, errorVars, databaseVars>>
notScanVars == <<dbVars, textVars, bindVars, dataVars, teardownVars, migrationsVars, errorVars, databaseVars>>
notBindVars == <<dbVars, textVars, scanVars, dataVars, teardownVars, migrationsVars, errorVars, databaseVars>>
notDataVars == <<dbVars, textVars, scanVars, bindVars, teardownVars, migrationsVars, errorVars, databaseVars>>
notTeardownVars == <<dbVars, textVars, scanVars, bindVars, dataVars, migrationsVars, errorVars, databaseVars>>
notMigrationsVars == <<dbVars, textVars, scanVars, bindVars, dataVars, teardownVars, errorVars, databaseVars>>
notErrorVars == <<dbVars, textVars, scanVars, bindVars, dataVars, teardownVars, migrationsVars, databaseVars>>
notDatabaseVars == <<dbVars, textVars, scanVars, bindVars, dataVars, teardownVars, migrationsVars, errorVars>>

(***************************************************************************)
(* Bounds of the model.                                                    *)
(***************************************************************************)
MaxOps    == 2      \* operations in one run
MaxStmts  == 2      \* statements in one operation
MaxParams == 2      \* parameters one statement reports
MaxLines  == 4      \* lines of a document
MaxSegs   == 4      \* segments of a scanned text

(***************************************************************************)
(* General helpers on sequences.                                           *)
(***************************************************************************)
SeqsUpTo(S, n) == UNION {[1..k -> S] : k \in 0..n}

Min(a, b) == IF a < b THEN a ELSE b

(***************************************************************************)
(* Database types.  The names are the constants of postgres::types::Type.  *)
(***************************************************************************)
ScalarTypes ==
    {"BOOL", "BYTEA", "CHAR", "INT8", "INT4", "INT2", "FLOAT8", "FLOAT4",
     "TEXT", "VARCHAR", "UUID", "TIMESTAMP", "TIMESTAMPTZ", "DATE", "TIME"}

\* The array form of a scalar type (Type::BOOL_ARRAY for Type::BOOL, ...).
ArrayOf(t) ==
    CASE t = "BOOL"        -> "BOOL_ARRAY"
      [] t = "BYTEA"       -> "BYTEA_ARRAY"
      [] t = "CHAR"        -> "CHAR_ARRAY"
      [] t = "INT8"        -> "INT8_ARRAY"
      [] t = "INT4"        -> "INT4_ARRAY"
      [] t = "INT2"        -> "INT2_ARRAY"
      [] t = "FLOAT8"      -> "FLOAT8_ARRAY"
      [] t = "FLOAT4"      -> "FLOAT4_ARRAY"
      [] t = "TEXT"        -> "TEXT_ARRAY"
      [] t = "VARCHAR"     -> "VARCHAR_ARRAY"
      [] t = "UUID"        -> "UUID_ARRAY"
      [] t = "TIMESTAMP"   -> "TIMESTAMP_ARRAY"
      [] t = "TIMESTAMPTZ" -> "TIMESTAMPTZ_ARRAY"
      [] t = "DATE"        -> "DATE_ARRAY"
      [] t = "TIME"        -> "TIME_ARRAY"

\* The types Operation::data_for_type has an arm for.
CatalogTypes == ScalarTypes \cup {ArrayOf(t) : t \in ScalarTypes}

\* The types a statement's parameters range over in this model: two with a
\* generator in every table, and one (JSONB) with no generator anywhere.
DbTypes == {"INT4", "TEXT", "JSONB"}

\* A descriptor of a synthesized value:
\*   len    length of the string / byte vector / array (1 for a plain scalar);
\*   inner  for an array of byte vectors or strings, the length of each element;
\*   from   "random", "fixed" (a literal) or "now" (the wall clock).
Value(shape, elem, len, inner, from) ==
    [shape |-> shape, elem |-> elem, len |-> len, inner |-> inner, from |-> from]

\* Option::None of data_for_type
NoData == Value("none", "none", 0, 0, "none")

\* Operation::data_for_type
data_for_type(param) ==
    CASE param = "BOOL"              -> Value("scalar", "bool", 1, 0, "random")
      [] param = "BOOL_ARRAY"        -> Value("array", "bool", 4, 0, "random")
      [] param = "BYTEA"             -> Value("scalar", "bytes", 32, 0, "random")
      [] param = "BYTEA_ARRAY"       -> Value("array", "bytes", 2, 32, "random")
      [] param = "CHAR"              -> Value("scalar", "i8", 1, 0, "random")
      [] param = "CHAR_ARRAY"        -> Value("array", "i8", 4, 0, "random")
      [] param = "INT8"              -> Value("scalar", "i64", 1, 0, "random")
      [] param = "INT8_ARRAY"        -> Value("array", "i64", 4, 0, "random")
      [] param = "INT4"              -> Value("scalar", "i32", 1, 0, "random")
      [] param = "INT4_ARRAY"        -> Value("array", "i32", 4, 0, "random")
      [] param = "INT2"              -> Value("scalar", "i16", 1, 0, "random")
      [] param = "INT2_ARRAY"        -> Value("array", "i16", 4, 0, "random")
      [] param = "FLOAT8"            -> Value("scalar", "f64", 1, 0, "random")
      [] param = "FLOAT8_ARRAY"      -> Value("array", "f64", 4, 0, "random")
      [] param = "FLOAT4"            -> Value("scalar", "f32", 1, 0, "random")
      [] param = "FLOAT4_ARRAY"      -> Value("array", "f32", 4, 0, "random")
      [] param \in {"TEXT", "VARCHAR"}
                                     -> Value("scalar", "String", 32, 0, "random")
      [] param \in {"TEXT_ARRAY", "VARCHAR_ARRAY"}
                                     -> Value("array", "String", 4, 4, "random")
      [] param = "TIMESTAMP"         -> Value("scalar", "SqlDateTime", 1, 0, "fixed")
      [] param = "TIMESTAMP_ARRAY"   -> Value("array", "SqlDateTime", 4, 0, "fixed")
      [] param = "TIMESTAMPTZ"       -> Value("scalar", "SqlTimestamp", 1, 0, "now")
      [] param = "TIMESTAMPTZ_ARRAY" -> Value("array", "SqlTimestamp", 4, 0, "now")
      [] param = "DATE"              -> Value("scalar", "SqlDate", 1, 0, "fixed")
      [] param = "DATE_ARRAY"        -> Value("array", "SqlDate", 4, 0, "fixed")
      [] param = "TIME"              -> Value("scalar", "SqlTime", 1, 0, "fixed")
      [] param = "TIME_ARRAY"        -> Value("array", "SqlTime", 4, 0, "fixed")
      [] param = "UUID"              -> Value("scalar", "Uuid", 1, 0, "random")
      [] param = "UUID_ARRAY"        -> Value("array", "Uuid", 4, 0, "random")
      [] OTHER                       -> NoData

\* Type::name(), which Operation::is_valid matches on.
TypeName(t) ==
    CASE t = "BOOL" -> "bool"
      [] t = "BYTEA" -> "bytea"
      [] t = "CHAR" -> "char"
      [] t = "INT8" -> "int8"
      [] t = "INT4" -> "int4"
      [] t = "INT2" -> "int2"
      [] t = "FLOAT8" -> "float8"
      [] t = "FLOAT4" -> "float4"
      [] t = "TEXT" -> "text"
      [] t = "VARCHAR" -> "varchar"
      [] t = "UUID" -> "uuid"
      [] t = "TIMESTAMP" -> "timestamp"
      [] t = "TIMESTAMPTZ" -> "timestamptz"
      [] t = "DATE" -> "date"
      [] t = "TIME" -> "time"
      [] t = "JSONB" -> "jsonb"
      [] OTHER -> "other"    \* array types (`_int4`, ...) and the rest: no arm of is_valid matches them

\* The arms of the match in Operation::is_valid that push a value.
is_valid_generates(name) ==
    name \in {"bool", "bytea", "char", "int8", "int4", "int2", "float8", "float4",
              "text", "varchar", "timestamp", "timestamptz", "uuid"}

(***************************************************************************)
(* The database (postgres::Client) as the loops see it.                    *)
(***************************************************************************)
\* SqlState codes the loops compare against, one other code, and an error
\* that carries no database code (Error::as_db_error() is None).
ErrorCodes == {"FOREIGN_KEY_VIOLATION", "CHECK_VIOLATION", "UNIQUE_VIOLATION", "NO_CODE"}

Reply(call, ok, code, params) ==
    [call |-> call, ok |-> ok, code |-> code, params |-> params]

NoReply == Reply("none", TRUE, "none", <<>>)

\* client.prepare(statement): the statement's parameter types, or an error.
PrepareReplies ==
    {Reply("prepare", TRUE, "none", p) : p \in SeqsUpTo(DbTypes, MaxParams)}
        \cup {Reply("prepare", FALSE, c, <<>>) : c \in {"SYNTAX_ERROR", "NO_CODE"}}

\* client.execute(statement, data): success, or an error with or without a code.
ExecuteReplies ==
    {Reply("execute", TRUE, "none", <<>>)}
        \cup {Reply("execute", FALSE, c, <<>>) : c \in ErrorCodes}

(***************************************************************************)
(* Failures: ParseOperationGroupErrorKind (Operation::new), the failures   *)
(* Operation::is_valid prints, and the panics of the emitted test.         *)
(*   stage  the call that failed: "prepare", "params" or "execute"         *)
(***************************************************************************)
Failure(kind, stage, statement_index, param_index, expected, real, code) ==
    [kind |-> kind, stage |-> stage, statement_index |-> statement_index,
     param_index |-> param_index, expected |-> expected, real |-> real, code |-> code]

NoFailure == Failure("none", "none", 0, 0, "none", "none", "none")

InvalidSql(stage, statement_index, code) ==
    Failure("InvalidSql", stage, statement_index, 0, "none", "none", code)

MismatchedParams(statement_index, param_index, expected, real) ==
    Failure("MismatchedParams", "params", statement_index, param_index, expected, real, "none")

UnsupportedParameter(statement_index, param_index, param_type) ==
    Failure("UnsupportedParameter", "params", statement_index, param_index, "none",
            param_type, "none")

\* What a run returns: status is "running", "Ok", "Err" or "panic"; value is
\* the bool of run_tests' Ok(bool); error is the ParseOperationGroupError.
Result(status, value, error) == [status |-> status, value |-> value, error |-> error]

Running == Result("running", TRUE, NoFailure)

\* The codes both loops let pass: `&SqlState::FOREIGN_KEY_VIOLATION |
\* &SqlState::CHECK_VIOLATION => continue`.
IsExpectedViolation(reply) ==
    reply.code \in {"FOREIGN_KEY_VIOLATION", "CHECK_VIOLATION"}

(***************************************************************************)
(* Initial states of Spec: a run over 1..MaxOps operations of 1..MaxStmts  *)
(* statements each (an Operation never has an empty statement list, see    *)
(* the text pipeline); the emitted test runs one statement.                *)
(***************************************************************************)
ParkedDb ==
    /\ impl = "none" /\ nStmts = <<>> /\ opIdx = 0 /\ stmtIdx = 0 /\ pc = "done"
    /\ curParams = <<>> /\ operation_params = <<>> /\ is_valid = TRUE
    /\ all_valid = TRUE /\ executed = {} /\ reported = {} /\ dbCalls = 0
    /\ lastReply = NoReply /\ opFailure = NoFailure /\ outcomes = <<>>
    /\ result = Running
    /\ statement_params = <<>>

InitDb ==
    /\ impl \in {"new", "old", "test"}
    /\ nStmts \in IF impl = "test" THEN {<<1>>}
                  ELSE UNION {[1..k -> 1..MaxStmts] : k \in 1..MaxOps}
    /\ opIdx = 1
    /\ stmtIdx = 0
    /\ pc = "prepare"
    /\ curParams = <<>>
    /\ operation_params = <<>>
    /\ is_valid = TRUE
    /\ all_valid = TRUE
    /\ executed = {}
    /\ reported = {}
    /\ dbCalls = 0
    /\ lastReply = NoReply
    /\ opFailure = NoFailure
    /\ outcomes = <<>>
    /\ result = Running
    /\ statement_params = <<>>

\* Is the current statement the last one of its operation?
LastStatement == stmtIdx + 1 >= nStmts[opIdx]

\* The least element of a non-empty set of naturals.
Least(S) == CHOOSE k \in S : \A j \in S : k <= j

(***************************************************************************)
(* Operation::new, called for each header by OperationGroup::parse.        *)
(***************************************************************************)
\* `return Err(ParseOperationGroupError {..})` in Operation::new, and the `?`
\* in OperationGroup::parse that returns it from the whole parse.
FailNew(failure) ==
    /\ opFailure' = failure
    /\ outcomes' = Append(outcomes, "failed")
    /\ result' = Result("Err", FALSE, failure)
    /\ pc' = "done"

\* The end of one iteration of `for (statement_index, statement) in ...`.
NextStatementNew ==
    IF LastStatement
    THEN /\ pc' = "opDone"
         /\ UNCHANGED stmtIdx
    ELSE /\ pc' = "prepare"
         /\ stmtIdx' = stmtIdx + 1

\* client.prepare(statement).map_err(InvalidSql)?
PrepareNew ==
    /\ impl = "new" /\ pc = "prepare"
    /\ \E reply \in PrepareReplies :
        /\ lastReply' = reply
        /\ dbCalls' = dbCalls + 1
        /\ IF reply.ok
           THEN /\ curParams' = reply.params
                /\ statement_params' = Append(statement_params, reply.params)
                /\ pc' = "reconcile"
                /\ UNCHANGED <<opFailure, outcomes, result>>
           ELSE /\ FailNew(InvalidSql("prepare", stmtIdx, reply.code))
                /\ UNCHANGED <<curParams, statement_params>>
    /\ UNCHANGED <<impl, nStmts, opIdx, stmtIdx, operation_params, is_valid,
                   all_valid, executed, reported>>
    /\ UNCHANGED notDbVars

\* operation_params.extend_from_slice(&params[operation_params.len()..])
\* Defined when the slice start is within params; the caller handles the panic.
ExtendFromSlice(established, params) ==
    established \o SubSeq(params, Len(established) + 1, Len(params))

\* The loop over params with the comparison against `expected` left out.
BadParamsUncompared(established, params) ==
    {k \in 0..(Len(params) - 1) : data_for_type(params[k + 1]) = NoData}

\* The first parameter index at which the loop over params returns an error:
\* a type that differs from the established one, or one with no generator.
BadParams(established, params) ==
    {k \in 0..(Len(params) - 1) :
        \/ params[k + 1] /= established[k + 1]
        \/ data_for_type(params[k + 1]) = NoData}

ParamFailure(established, params, statement_index, k) ==
    IF params[k + 1] /= established[k + 1]
    THEN MismatchedParams(statement_index, k, established[k + 1], params[k + 1])
    ELSE UnsupportedParameter(statement_index, k, params[k + 1])

\* Lines 174-200: extend the vector, then check every parameter and build its data.
ReconcileNew ==
    /\ impl = "new" /\ pc = "reconcile"
    /\ IF Len(curParams) < Len(operation_params)
       THEN \* range start index out of range for slice: the thread panics
            /\ result' = Result("panic", FALSE, NoFailure)
            /\ pc' = "done"
            /\ UNCHANGED <<operation_params, opFailure, outcomes>>
       ELSE LET extended == ExtendFromSlice(operation_params, curParams)
                bad == BadParams(extended, curParams)
            IN  /\ operation_params' = extended
                /\ IF bad = {}
                   THEN /\ pc' = "execute"
                        /\ UNCHANGED <<opFailure, outcomes, result>>
                   ELSE FailNew(ParamFailure(extended, curParams, stmtIdx, Least(bad)))
    /\ UNCHANGED <<impl, nStmts, statement_params, opIdx, stmtIdx, curParams, is_valid, all_valid,
                   executed, reported, dbCalls, lastReply>>
    /\ UNCHANGED notDbVars

\* Lines 205-220: execute; FOREIGN_KEY_VIOLATION and CHECK_VIOLATION `continue`,
\* any other error (with another code or with none) returns InvalidSql.
ExecuteNew ==
    /\ impl = "new" /\ pc = "execute"
    /\ \E reply \in ExecuteReplies :
        /\ lastReply' = reply
        /\ dbCalls' = dbCalls + 1
        /\ executed' = executed \cup {stmtIdx}
        /\ IF reply.ok \/ (reply.code /= "NO_CODE" /\ IsExpectedViolation(reply))
           THEN /\ NextStatementNew
                /\ UNCHANGED <<opFailure, outcomes, result>>
           ELSE /\ FailNew(InvalidSql("execute", stmtIdx, reply.code))
                /\ UNCHANGED stmtIdx
    /\ UNCHANGED <<impl, nStmts, statement_params, opIdx, curParams, operation_params, is_valid,
                   all_valid, reported>>
    /\ UNCHANGED notDbVars

\* Ok(Self {..}) of Operation::new, operations.push(operation) of parse, and
\* either the next header or Ok(Self(operations)).
FinishOperationNew ==
    /\ impl = "new" /\ pc = "opDone"
    /\ outcomes' = Append(outcomes, "ok")
    /\ IF opIdx < Len(nStmts)
       THEN /\ opIdx' = opIdx + 1
            /\ stmtIdx' = 0
            /\ pc' = "prepare"
            /\ operation_params' = <<>>
            /\ curParams' = <<>>
            /\ executed' = {}
            /\ dbCalls' = 0
            /\ statement_params' = <<>>
            /\ UNCHANGED result
       ELSE /\ result' = Result("Ok", TRUE, NoFailure)
            /\ pc' = "done"
            /\ UNCHANGED <<opIdx, stmtIdx, operation_params, curParams, executed, dbCalls,
                           statement_params>>
    /\ UNCHANGED <<impl, nStmts, is_valid, all_valid, reported, lastReply, opFailure>>
    /\ UNCHANGED notDbVars


(***************************************************************************)
(* Operation::is_valid, called for each operation by run_tests.            *)
(***************************************************************************)
\* is_valid = false; print_fail(.. index + 1 ..); action.dont_overwrite()
MarkInvalid(failure) ==
    /\ is_valid' = FALSE
    /\ reported' = reported \cup {failure.statement_index}
    /\ opFailure' = IF opFailure = NoFailure THEN failure ELSE opFailure

\* The end of one iteration of `'step: for (index, step) in ...`.
NextStepOld ==
    IF LastStatement
    THEN /\ pc' = "opDone"
         /\ UNCHANGED stmtIdx
    ELSE /\ pc' = "prepare"
         /\ stmtIdx' = stmtIdx + 1

\* Lines 36-55: a statement that cannot be prepared marks the operation
\* invalid, and the loop goes on with the next step (`continue`).
PrepareOld ==
    /\ impl = "old" /\ pc = "prepare"
    /\ \E reply \in PrepareReplies :
        /\ lastReply' = reply
        /\ dbCalls' = dbCalls + 1
        /\ IF reply.ok
           THEN /\ curParams' = reply.params
                /\ pc' = "generate"
                /\ UNCHANGED <<stmtIdx, is_valid, reported, opFailure>>
           ELSE /\ MarkInvalid(InvalidSql("prepare", stmtIdx, reply.code))
                /\ NextStepOld
                /\ UNCHANGED curParams
    /\ UNCHANGED <<impl, nStmts, statement_params, opIdx, operation_params, all_valid, executed,
                   outcomes, result>>
    /\ UNCHANGED notDbVars

\* Lines 57 and 74-115: a statement without parameters goes straight to
\* execute; otherwise one value is pushed per parameter, and a parameter whose
\* type name has no arm prints a warning and skips the step (`continue 'step`).
GenerateOld ==
    /\ impl = "old" /\ pc = "generate"
    /\ IF \E k \in 1..Len(curParams) : ~is_valid_generates(TypeName(curParams[k]))
       THEN NextStepOld
       ELSE /\ pc' = "execute"
            /\ UNCHANGED stmtIdx
    /\ UNCHANGED <<impl, nStmts, statement_params, opIdx, curParams, operation_params, is_valid,
                   all_valid, executed, reported, dbCalls, lastReply, opFailure,
                   outcomes, result>>
    /\ UNCHANGED notDbVars

\* Lines 58-72 (no parameters: every error marks the operation invalid) and
\* lines 117-140 (parameters: FOREIGN_KEY_VIOLATION and CHECK_VIOLATION
\* `continue`, every other error marks it invalid).  The loop then goes on.
ExecuteOld ==
    /\ impl = "old" /\ pc = "execute"
    /\ \E reply \in ExecuteReplies :
        /\ lastReply' = reply
        /\ dbCalls' = dbCalls + 1
        /\ executed' = executed \cup {stmtIdx}
        /\ IF reply.ok
           THEN UNCHANGED <<is_valid, reported, opFailure>>
           ELSE IF curParams = <<>>
           THEN MarkInvalid(InvalidSql("execute", stmtIdx, reply.code))
           ELSE IF reply.code /= "NO_CODE" /\ IsExpectedViolation(reply)
           THEN UNCHANGED <<is_valid, reported, opFailure>>
           ELSE MarkInvalid(InvalidSql("execute", stmtIdx, reply.code))
        /\ NextStepOld
    /\ UNCHANGED <<impl, nStmts, statement_params, opIdx, curParams, operation_params, all_valid,
                   outcomes, result>>
    /\ UNCHANGED notDbVars

\* `is_valid` returned by Operation::is_valid, and run_tests'
\* `all_valid &= operation.is_valid(..)`, then the next operation.
FinishOperationOld ==
    /\ impl = "old" /\ pc = "opDone"
    /\ all_valid' = (all_valid /\ is_valid)
    /\ outcomes' = Append(outcomes, IF is_valid THEN "ok" ELSE "failed")
    /\ IF opIdx < Len(nStmts)
       THEN /\ opIdx' = opIdx + 1
            /\ stmtIdx' = 0
            /\ pc' = "prepare"
            /\ curParams' = <<>>
            /\ is_valid' = TRUE
            /\ executed' = {}
            /\ reported' = {}
            /\ dbCalls' = 0
            /\ opFailure' = NoFailure
       ELSE /\ pc' = "finish"
            /\ UNCHANGED <<opIdx, stmtIdx, curParams, is_valid, executed, reported,
                           dbCalls, opFailure>>
    /\ UNCHANGED <<impl, nStmts, statement_params, operation_params, lastReply, result>>
    /\ UNCHANGED notDbVars

\* run_tests lines 123-132: Ok(false) if any operation was invalid, else Ok(true).
FinishRunTests ==
    /\ impl = "old" /\ pc = "finish"
    /\ result' = Result("Ok", all_valid, NoFailure)
    /\ pc' = "done"
    /\ UNCHANGED <<impl, nStmts, statement_params, opIdx, stmtIdx, curParams, operation_params,
                   is_valid, all_valid, executed, reported, dbCalls, lastReply,
                   opFailure, outcomes>>
    /\ UNCHANGED notDbVars

(***************************************************************************)
(* The test create_test emits for one query: every failed assertion and    *)
(* the `None => panic!` arm end the test with a panic.                     *)
(***************************************************************************)
PanicTest(failure) ==
    /\ opFailure' = failure
    /\ result' = Result("panic", FALSE, failure)
    /\ pc' = "done"

\* assert!(statement.is_ok(), ..)
PrepareTest ==
    /\ impl = "test" /\ pc = "prepare"
    /\ \E reply \in PrepareReplies :
        /\ lastReply' = reply
        /\ dbCalls' = dbCalls + 1
        /\ IF reply.ok
           THEN /\ curParams' = reply.params
                /\ pc' = "generate"
                /\ UNCHANGED <<opFailure, result>>
           ELSE /\ PanicTest(InvalidSql("prepare", stmtIdx, reply.code))
                /\ UNCHANGED curParams
    /\ UNCHANGED <<impl, nStmts, statement_params, opIdx, stmtIdx, operation_params, is_valid,
                   all_valid, executed, reported, outcomes>>
    /\ UNCHANGED notDbVars

\* match data_for_type(param) { Some(..) => push, None => panic!(..) }
GenerateTest ==
    /\ impl = "test" /\ pc = "generate"
    /\ LET bad == {k \in 0..(Len(curParams) - 1) : data_for_type(curParams[k + 1]) = NoData}
       IN  IF bad = {}
           THEN /\ pc' = "execute"
                /\ UNCHANGED <<opFailure, result>>
           ELSE PanicTest(UnsupportedParameter(stmtIdx, Least(bad), curParams[Least(bad) + 1]))
    /\ UNCHANGED <<impl, nStmts, statement_params, opIdx, stmtIdx, curParams, operation_params,
                   is_valid, all_valid, executed, reported, dbCalls, lastReply, outcomes>>
    /\ UNCHANGED notDbVars

\* assert!(matches!(error.code(), Some(FOREIGN_KEY_VIOLATION) | Some(CHECK_VIOLATION)))
ExecuteTest ==
    /\ impl = "test" /\ pc = "execute"
    /\ \E reply \in ExecuteReplies :
        /\ lastReply' = reply
        /\ dbCalls' = dbCalls + 1
        /\ executed' = executed \cup {stmtIdx}
        /\ IF reply.ok \/ (reply.code /= "NO_CODE" /\ IsExpectedViolation(reply))
           THEN /\ result' = Result("Ok", TRUE, NoFailure)
                /\ pc' = "done"
                /\ UNCHANGED opFailure
           ELSE PanicTest(InvalidSql("execute", stmtIdx, reply.code))
    /\ UNCHANGED <<impl, nStmts, statement_params, opIdx, stmtIdx, curParams, operation_params,
                   is_valid, all_valid, reported, outcomes>>
    /\ UNCHANGED notDbVars


(***************************************************************************)
(* Text.  A string is a sequence of one-character strings.                 *)
(***************************************************************************)
Whitespace == {" ", "\n", "\t"}

Digits == {"0", "1", "2", "3", "4", "5", "6", "7", "8", "9"}

\* The lines documents are built from.
LineHeaderA == <<"-", "-", "-", " ", "a">>    \* a header
LineHeaderB == <<"-", "-", "-", " ", "b">>    \* another header
LineNoTitle == <<"-", "-", "-">>    \* three dashes without a title: the header pattern needs `--- ` and one more character
LineStmt == <<"s", ";">>    \* one terminated statement
LineTwoStmts == <<"s", ";", " ", "t">>    \* a terminated statement followed by an unterminated one
LineStmtComment == <<"s", " ", "-", "-", "c", ";">>    \* a statement with a trailing comment that holds the `;`
LineOptOne == <<"-", "-", " ", "o", "p", "t", " ", "$", "1">>    \* directive: parameter 1 is optional
LineOptZero == <<"-", "-", " ", "o", "p", "t", " ", "$", "0">>    \* directive naming position 0
LineOptBad == <<"-", "-", " ", "o", "p", "t", " ", "x">>    \* directive whose argument is no parameter
LineFooOne == <<"-", "-", " ", "f", "o", "o", " ", "$", "1">>    \* a directive line with an unknown code

DocLines == {LineHeaderA, LineHeaderB, LineNoTitle, LineStmt, LineTwoStmts, LineStmtComment, LineOptOne, LineOptZero, LineOptBad, LineFooOne}


RECURSIVE JoinLines(_)
JoinLines(lines) ==
    IF lines = <<>> THEN <<>>
    ELSE IF Len(lines) = 1 THEN lines[1]
    ELSE lines[1] \o <<"\n">> \o JoinLines(Tail(lines))

\* The documents of the model: up to MaxLines of the lines above.
Docs == {JoinLines(ls) : ls \in SeqsUpTo(DocLines, MaxLines)}

\* Index of the first occurrence of character c in text, 0 if there is none.
FirstIndex(text, c) ==
    IF \E i \in 1..Len(text) : text[i] = c
    THEN Least({i \in 1..Len(text) : text[i] = c})
    ELSE 0

\* The lines of a text: what lies between the "\n" characters.  The patterns
\* below are all compiled with (?m) or do not cross a line (`.` excludes \n).
RECURSIVE Lines(_)
Lines(text) ==
    LET i == FirstIndex(text, "\n")
    IN  IF i = 0 THEN <<text>>
        ELSE <<SubSeq(text, 1, i - 1)>> \o Lines(SubSeq(text, i + 1, Len(text)))

\* str::trim
RECURSIVE TrimStart(_)
TrimStart(text) ==
    IF text /= <<>> /\ text[1] \in Whitespace THEN TrimStart(Tail(text)) ELSE text

RECURSIVE TrimEnd(_)
TrimEnd(text) ==
    IF text /= <<>> /\ text[Len(text)] \in Whitespace
    THEN TrimEnd(SubSeq(text, 1, Len(text) - 1))
    ELSE text

Trim(text) == TrimEnd(TrimStart(text))

StartsWith(text, prefix) ==
    Len(text) >= Len(prefix) /\ SubSeq(text, 1, Len(prefix)) = prefix

\* str::split_inclusive(';'): every piece but possibly the last ends with `;`.
RECURSIVE SplitInclusive(_)
SplitInclusive(text) ==
    LET i == FirstIndex(text, ";")
    IN  IF text = <<>> THEN <<>>
        ELSE IF i = 0 THEN <<text>>
        ELSE <<SubSeq(text, 1, i)>> \o SplitInclusive(SubSeq(text, i + 1, Len(text)))

(***************************************************************************)
(* OperationGroup: headers and bodies.                                     *)
(***************************************************************************)
\* header_regex `(?m)^--- (?<name>.+)$` matches this whole line.
IsHeaderLine(line) == StartsWith(line, <<"-", "-", "-", " ">>) /\ Len(line) >= 5

\* The capture group `name` of a header line.
HeaderName(line) == SubSeq(line, 5, Len(line))

\* cli_helper::to_valid_ident, a function of another crate: the identifier it
\* derives is kept as the text it was derived from, marked as converted.
to_valid_ident(text) == [ident_of |-> text]

\* header_regex.captures_iter(&source): the names, in document order.
RECURSIVE HeaderCaptures(_)
HeaderCaptures(lines) ==
    IF lines = <<>> THEN <<>>
    ELSE (IF IsHeaderLine(lines[1]) THEN <<HeaderName(lines[1])>> ELSE <<>>)
            \o HeaderCaptures(Tail(lines))

\* The split with a pattern that lacks the multi-line flag: only a header on
\* the first line of the text is a match.
RECURSIVE HeaderSplit(_, _, _)
HeaderSplitFirstLineOnly(lines, current, first) ==
    IF lines = <<>> THEN <<current>>
    ELSE LET cur == IF first THEN current ELSE current \o <<"\n">>
         IN  IF first /\ IsHeaderLine(lines[1])
             THEN <<cur>> \o HeaderSplit(Tail(lines), <<>>, FALSE)
             ELSE HeaderSplit(Tail(lines), cur \o lines[1], FALSE)

\* header_regex.split(&source): the text before the first match, between two
\* matches, and after the last one.  `current` is the piece being collected,
\* `first` tells whether lines[1] is the first line of the text.
HeaderSplit(lines, current, first) ==
    IF lines = <<>> THEN <<current>>
    ELSE LET cur == IF first THEN current ELSE current \o <<"\n">>
         IN  IF IsHeaderLine(lines[1])
             THEN <<cur>> \o HeaderSplit(Tail(lines), <<>>, FALSE)
             ELSE HeaderSplit(Tail(lines), cur \o lines[1], FALSE)

headers(source) == HeaderCaptures(Lines(source))

\* The pieces of the split with the text before the first header kept.
bodies_unsliced(source) == HeaderSplit(Lines(source), <<>>, TRUE)

\* let bodies = &bodies[1..];
bodies(source) == Tail(HeaderSplit(Lines(source), <<>>, TRUE))

\* The result of parsing a document.
\* status: "running", "Ok", "Err" or "panic"; operation: the name the error
\* carries, an Option: <<>> for None, <<name>> for Some(name).
TextResult(status, kind, operation, header_count, body_count) ==
    [status |-> status, kind |-> kind, operation |-> operation,
     header_count |-> header_count, body_count |-> body_count]

TextRunning == TextResult("running", "none", <<>>, 0, 0)

TextOk == TextResult("Ok", "none", <<>>, 0, 0)

\* The result of a scan: status is "idle", "Ok" or "panic"; parameter_types
\* are the names the scanner pushed, types what they resolved to, optional
\* the positions the macro wrapped in Option.
ScanResult(status, parameter_types, types, optional) ==
    [status |-> status, parameter_types |-> parameter_types, types |-> types,
     optional |-> optional]

ScanIdle == ScanResult("idle", <<>>, <<>>, <<>>)

(***************************************************************************)
(* The database-driven loops put together.                                 *)
(***************************************************************************)
ParkedText ==
    /\ doc = <<>> /\ tImpl = "none" /\ tPc = "done" /\ tHeaders = <<>>
    /\ tBodies = <<>> /\ tOps = <<>> /\ tResult = TextRunning

ParkedScan == sText = <<>> /\ sImpl = "none" /\ sOptional = {} /\ sOut = ScanIdle

Next ==
    \/ PrepareNew
    \/ ReconcileNew
    \/ ExecuteNew
    \/ FinishOperationNew
    \/ PrepareOld
    \/ GenerateOld
    \/ ExecuteOld
    \/ FinishOperationOld
    \/ FinishRunTests
    \/ PrepareTest
    \/ GenerateTest
    \/ ExecuteTest



(***************************************************************************)
(* Operator directives (crates/sql-helper).                                *)
(***************************************************************************)
\* operator_regex `(?m)^-- (?<op>opt) (?<params>.*)$` matches this whole line.
IsOperatorLine(line) == StartsWith(line, <<"-", "-", " ", "o", "p", "t", " ">>)

\* The capture group `params` of an operator line.
OperatorParams(line) == SubSeq(line, 8, Len(line))

\* operator_regex.captures_iter(&sql): the params of each match, in order.
RECURSIVE OperatorCaptures(_)
OperatorCaptures(lines) ==
    IF lines = <<>> THEN <<>>
    ELSE (IF IsOperatorLine(lines[1]) THEN <<OperatorParams(lines[1])>> ELSE <<>>)
            \o OperatorCaptures(Tail(lines))

DigitValue(c) ==
    CASE c = "0" -> 0 [] c = "1" -> 1 [] c = "2" -> 2 [] c = "3" -> 3 [] c = "4" -> 4
      [] c = "5" -> 5 [] c = "6" -> 6 [] c = "7" -> 7 [] c = "8" -> 8 [] c = "9" -> 9

\* str::parse::<usize>() succeeds on an optional `+` and at least one digit.
UnsignedDigits(text) == IF text /= <<>> /\ text[1] = "+" THEN Tail(text) ELSE text

IsUsizeLiteral(text) ==
    /\ UnsignedDigits(text) /= <<>>
    /\ \A i \in 1..Len(UnsignedDigits(text)) : UnsignedDigits(text)[i] \in Digits

RECURSIVE DecimalValue(_)
DecimalValue(digits) ==
    IF digits = <<>> THEN 0
    ELSE 10 * DecimalValue(SubSeq(digits, 1, Len(digits) - 1))
            + DigitValue(digits[Len(digits)])

Optional(parameter_index) == [kind |-> "Optional", parameter_index |-> parameter_index]

InvalidParams == [kind |-> "InvalidParams", parameter_index |-> 0]

OperatorPanic == [kind |-> "panic", parameter_index |-> 0]

\* Operator::try_from for a captured `opt` line: the outcomes the build can
\* produce.  `parameter - 1` on 0 panics with overflow checks and wraps to
\* usize::MAX without them; -1 stands for usize::MAX here.
OperatorTryFrom(captured) ==
    LET params == Trim(captured)
    IN  IF params = <<>> THEN {InvalidParams}
        ELSE IF ~IsUsizeLiteral(Tail(params)) THEN {InvalidParams}
        ELSE LET parameter == DecimalValue(UnsignedDigits(Tail(params)))
             IN  IF parameter = 0 THEN {OperatorPanic, Optional(-1)}
                 ELSE {Optional(parameter - 1)}

\* .map(Operator::try_from).collect::<Result<_, _>>(): the operators, or the
\* first error (or panic) met.
Collected(status, operators) == [status |-> status, operators |-> operators]

RECURSIVE CollectOperators(_)
CollectOperators(captures) ==
    IF captures = <<>> THEN {Collected("Ok", <<>>)}
    ELSE UNION {
            IF o.kind = "Optional"
            THEN {Collected(r.status, IF r.status = "Ok" THEN <<o>> \o r.operators ELSE <<>>) :
                    r \in CollectOperators(Tail(captures))}
            ELSE {Collected(IF o.kind = "panic" THEN "panic" ELSE "Err", <<>>)}
          : o \in OperatorTryFrom(captures[1])}

(***************************************************************************)
(* Statements of one operation body.                                       *)
(***************************************************************************)
\* comment_regex `(?m)--.*` replaced by "": a line loses everything from its
\* first `--` on.
StripComment(line) ==
    LET at == {i \in 1..(Len(line) - 1) : line[i] = "-" /\ line[i + 1] = "-"}
    IN  IF at = {} THEN line ELSE SubSeq(line, 1, Least(at) - 1)

RemoveComments(sql) ==
    LET ls == Lines(sql)
    IN  JoinLines([i \in 1..Len(ls) |-> StripComment(ls[i])])

\* .filter_map(|statement| trim, drop if empty)
RECURSIVE TrimmedNonEmpty(_)
TrimmedNonEmpty(pieces) ==
    IF pieces = <<>> THEN <<>>
    ELSE (IF Trim(pieces[1]) = <<>> THEN <<>> ELSE <<Trim(pieces[1])>>)
            \o TrimmedNonEmpty(Tail(pieces))

\* crates/sql-helper Operation::new: comments removed, then split and trimmed.
statements(sql) == TrimmedNonEmpty(SplitInclusive(RemoveComments(sql)))

\* src/src Operation::new: split and trimmed, comments kept.
steps(sql) == TrimmedNonEmpty(SplitInclusive(sql))

Operation(name, stmts, operators) ==
    [name |-> name, statements |-> stmts, operators |-> operators]

(***************************************************************************)
(* SpecText: OperationGroup::parse (crates/sql-helper) and                 *)
(* OperationGroup::try_from (src/src) on a document.                       *)
(***************************************************************************)
\* What the statement loop of Operation::new (modelled step by step in Spec)
\* can end with once the statements are split.
LoopVerdicts == {"Ok", "InvalidSql", "MismatchedParams", "UnsupportedParameter", "panic"}

InitText ==
    /\ doc \in Docs
    /\ tImpl \in {"parse", "try_from"}
    /\ tPc = "start"
    /\ tHeaders = <<>>
    /\ tBodies = <<>>
    /\ tOps = <<>>
    /\ tResult = TextRunning

\* OperationGroup::parse lines 17-37: collect headers and bodies, reject a
\* document without headers or with another number of bodies.
ParseSplit ==
    /\ tImpl = "parse" /\ tPc = "start"
    /\ tHeaders' = headers(doc)
    /\ tBodies' = bodies(doc)
    /\ IF headers(doc) = <<>>
       THEN /\ tResult' = TextResult("Err", "NoHeaders", <<>>, 0, 0)
            /\ tPc' = "done"
       ELSE IF Len(headers(doc)) /= Len(bodies(doc))
       THEN /\ tResult' = TextResult("Err", "HeaderBodyMismatch", <<>>,
                                     Len(headers(doc)), Len(bodies(doc)))
            /\ tPc' = "done"
       ELSE /\ tPc' = "ops"
            /\ UNCHANGED tResult
    /\ UNCHANGED <<doc, tImpl, tOps>>
    /\ UNCHANGED notTextVars

\* One iteration of parse's loop: Operation::new(name, sql, state)?.  The
\* operators are collected, the statements split, then the statement loop
\* runs against the database; any Err is returned from the whole parse.
OperationNew ==
    /\ tImpl = "parse" /\ tPc = "ops" /\ Len(tOps) < Len(tHeaders)
    /\ LET index == Len(tOps) + 1
           name == to_valid_ident(tHeaders[index])
           sql == Trim(tBodies[index])
       IN  \E collected \in CollectOperators(OperatorCaptures(Lines(sql))) :
           \E verdict \in LoopVerdicts :
             IF collected.status = "panic"
             THEN /\ tResult' = TextResult("panic", "none", <<name>>, 0, 0)
                  /\ tPc' = "done"
                  /\ UNCHANGED tOps
             ELSE IF collected.status = "Err"
             THEN /\ tResult' = TextResult("Err", "OperatorError", <<name>>, 0, 0)
                  /\ tPc' = "done"
                  /\ UNCHANGED tOps
             ELSE IF statements(sql) = <<>>
             THEN /\ tResult' = TextResult("Err", "NoStatements", <<name>>, 0, 0)
                  /\ tPc' = "done"
                  /\ UNCHANGED tOps
             ELSE IF verdict = "panic"
             THEN /\ tResult' = TextResult("panic", "none", <<name>>, 0, 0)
                  /\ tPc' = "done"
                  /\ UNCHANGED tOps
             ELSE IF verdict /= "Ok"
             THEN /\ tResult' = TextResult("Err", verdict, <<name>>, 0, 0)
                  /\ tPc' = "done"
                  /\ UNCHANGED tOps
             ELSE /\ tOps' = Append(tOps, Operation(name, statements(sql), collected.operators))
                  /\ UNCHANGED <<tResult, tPc>>
    /\ UNCHANGED <<doc, tImpl, tHeaders, tBodies>>
    /\ UNCHANGED notTextVars

\* Ok(Self(operations)) once every header has its operation.
ParseFinish ==
    /\ tImpl = "parse" /\ tPc = "ops" /\ Len(tOps) = Len(tHeaders)
    /\ tResult' = TextOk
    /\ tPc' = "done"
    /\ UNCHANGED <<doc, tImpl, tHeaders, tBodies, tOps>>
    /\ UNCHANGED notTextVars

\* The operations try_from builds from the first n headers.
OldOperations(hs, bs, n) ==
    [i \in 1..n |-> Operation(to_valid_ident(hs[i]), steps(Trim(bs[i])), <<>>)]

\* OperationGroup::try_from (src/src): the same split, then Operation::new for
\* each header, returning NoSteps for the first operation without steps.
TryFrom ==
    /\ tImpl = "try_from" /\ tPc = "start"
    /\ tHeaders' = headers(doc)
    /\ tBodies' = bodies(doc)
    /\ LET hs == headers(doc)
           bs == bodies(doc)
           empty == {i \in 1..Min(Len(hs), Len(bs)) : steps(Trim(bs[i])) = <<>>}
       IN  IF hs = <<>>
           THEN /\ tResult' = TextResult("Err", "NoHeaders", <<>>, 0, 0)
                /\ UNCHANGED tOps
           ELSE IF Len(hs) /= Len(bs)
           THEN /\ tResult' = TextResult("Err", "HeaderBodyMismatch", <<>>, Len(hs), Len(bs))
                /\ UNCHANGED tOps
           ELSE IF empty /= {}
           THEN /\ tResult' = TextResult("Err", "NoSteps", <<to_valid_ident(hs[Least(empty)])>>, 0, 0)
                /\ tOps' = OldOperations(hs, bs, Least(empty) - 1)
           ELSE /\ tResult' = TextOk
                /\ tOps' = OldOperations(hs, bs, Len(hs))
    /\ tPc' = "done"
    /\ UNCHANGED <<doc, tImpl>>
    /\ UNCHANGED notTextVars

NextText ==
    \/ ParseSplit
    \/ OperationNew
    \/ ParseFinish
    \/ TryFrom



(***************************************************************************)
(* The parameter annotation scanners: get_param_types                      *)
(* (sql-helper-derive/src/query/parameters.rs) and the scanner inside the  *)
(* query macro (sql-helper-derive/src/lib.rs).                             *)
(***************************************************************************)
UpperCase == <<"A", "B", "C", "D", "E", "F", "G", "H", "I", "J", "K", "L", "M",
               "N", "O", "P", "Q", "R", "S", "T", "U", "V", "W", "X", "Y", "Z">>

LowerCase == <<"a", "b", "c", "d", "e", "f", "g", "h", "i", "j", "k", "l", "m",
               "n", "o", "p", "q", "r", "s", "t", "u", "v", "w", "x", "y", "z">>

is_ascii_alphabetic(c) == \E i \in 1..Len(UpperCase) : c = UpperCase[i] \/ c = LowerCase[i]

is_ascii_digit(c) == c \in Digits

is_ascii_alphanumeric(c) == is_ascii_alphabetic(c) \/ is_ascii_digit(c)

\* char by char str::to_uppercase on ASCII text
UpperChar(c) ==
    IF \E i \in 1..Len(LowerCase) : c = LowerCase[i]
    THEN UpperCase[CHOOSE i \in 1..Len(LowerCase) : c = LowerCase[i]]
    ELSE c

to_uppercase(text) == [i \in 1..Len(text) |-> UpperChar(text[i])]

\* "unknown".to_string()
unknown == <<"u", "n", "k", "n", "o", "w", "n">>

\* The characters that extend a type token: get_param_types accepts
\* alphanumerics (parameters.rs line 49), the query macro letters only
\* (lib.rs line 118); both accept `[` and `]`.
ExtendsType(scanner, c) ==
    \/ c = "[" \/ c = "]"
    \/ IF scanner = "get_param_types" THEN is_ascii_alphanumeric(c)
       ELSE is_ascii_alphabetic(c)

ScanState(state, has_consumed_a_digit, type_string, parameter_types) ==
    [state |-> state, has_consumed_a_digit |-> has_consumed_a_digit,
     type_string |-> type_string, parameter_types |-> parameter_types]

Neutral(parameter_types) == ScanState("Neutral", FALSE, <<>>, parameter_types)

\* The body of `for character in sql.chars()`: one character in one state.
ScanCharacter(scanner, st, character) ==
    CASE st.state = "Neutral" ->
            IF character = "$"
            THEN ScanState("ConsumingNumber", FALSE, <<>>, st.parameter_types)
            ELSE st
      [] st.state = "ConsumingNumber" ->
            IF is_ascii_digit(character)
            THEN ScanState("ConsumingNumber", TRUE, <<>>, st.parameter_types)
            ELSE IF character = ":"
            THEN ScanState("ConsumingTypeSeparator", FALSE, <<>>, st.parameter_types)
            ELSE IF st.has_consumed_a_digit
            THEN Neutral(Append(st.parameter_types, unknown))
            ELSE Neutral(st.parameter_types)
      [] st.state = "ConsumingTypeSeparator" ->
            IF is_ascii_alphabetic(character)
            THEN ScanState("ConsumingType", FALSE, <<character>>, st.parameter_types)
            ELSE IF character /= ":"
            THEN Neutral(Append(st.parameter_types, unknown))
            ELSE st
      [] st.state = "ConsumingType" ->
            IF ExtendsType(scanner, character)
            THEN ScanState("ConsumingType", FALSE, Append(st.type_string, character),
                           st.parameter_types)
            ELSE Neutral(Append(st.parameter_types, to_uppercase(st.type_string)))

\* The end of the input with the open state dropped instead of flushed.
ScanEndUnflushed(st) == st.parameter_types

\* `match state` after the loop: the open state is flushed.
ScanEnd(st) ==
    CASE st.state = "Neutral" -> st.parameter_types
      [] st.state = "ConsumingNumber" ->
            IF st.has_consumed_a_digit THEN Append(st.parameter_types, unknown)
            ELSE st.parameter_types
      [] st.state = "ConsumingTypeSeparator" -> Append(st.parameter_types, unknown)
      [] st.state = "ConsumingType" ->
            Append(st.parameter_types, to_uppercase(st.type_string))

RECURSIVE ScanFrom(_, _, _)
ScanFrom(scanner, st, text) ==
    IF text = <<>> THEN ScanEnd(st)
    ELSE ScanFrom(scanner, ScanCharacter(scanner, st, text[1]), Tail(text))

\* The names pushed for a text, in order.
parameter_types(scanner, text) == ScanFrom(scanner, Neutral(<<>>), text)

\* The names both tables know.
KNOWN_TYPES ==
    {<<"B", "O", "O", "L">>,
     <<"B", "O", "O", "L", "[", "]">>,
     <<"B", "Y", "T", "E", "A">>,
     <<"B", "Y", "T", "E", "A", "[", "]">>,
     <<"C", "H", "A", "R">>,
     <<"C", "H", "A", "R", "[", "]">>,
     <<"I", "N", "T", "8">>,
     <<"I", "N", "T", "8", "[", "]">>,
     <<"I", "N", "T", "4">>,
     <<"I", "N", "T", "4", "[", "]">>,
     <<"I", "N", "T", "2">>,
     <<"I", "N", "T", "2", "[", "]">>,
     <<"F", "L", "O", "A", "T", "8">>,
     <<"F", "L", "O", "A", "T", "8", "[", "]">>,
     <<"F", "L", "O", "A", "T", "4">>,
     <<"F", "L", "O", "A", "T", "4", "[", "]">>,
     <<"U", "U", "I", "D">>,
     <<"U", "U", "I", "D", "[", "]">>,
     <<"T", "E", "X", "T">>,
     <<"V", "A", "R", "C", "H", "A", "R">>,
     <<"V", "A", "R", "C", "H", "A", "R", "[", "]">>,
     <<"T", "E", "X", "T", "[", "]">>,
     <<"T", "I", "M", "E", "S", "T", "A", "M", "P">>,
     <<"T", "I", "M", "E", "S", "T", "A", "M", "P", "[", "]">>,
     <<"T", "I", "M", "E", "S", "T", "A", "M", "P", "T", "Z">>,
     <<"T", "I", "M", "E", "S", "T", "A", "M", "P", "T", "Z", "[", "]">>,
     <<"D", "A", "T", "E">>,
     <<"D", "A", "T", "E", "[", "]">>,
     <<"T", "I", "M", "E">>,
     <<"T", "I", "M", "E", "[", "]">>}

\* get_param_types lines 75-112: the postgres Type of a known name.
TypeOfName(type_string) ==
    CASE type_string = <<"B", "O", "O", "L">> -> "BOOL"
      [] type_string = <<"B", "O", "O", "L", "[", "]">> -> "BOOL_ARRAY"
      [] type_string = <<"B", "Y", "T", "E", "A">> -> "BYTEA"
      [] type_string = <<"B", "Y", "T", "E", "A", "[", "]">> -> "BYTEA_ARRAY"
      [] type_string = <<"C", "H", "A", "R">> -> "CHAR"
      [] type_string = <<"C", "H", "A", "R", "[", "]">> -> "CHAR_ARRAY"
      [] type_string = <<"I", "N", "T", "8">> -> "INT8"
      [] type_string = <<"I", "N", "T", "8", "[", "]">> -> "INT8_ARRAY"
      [] type_string = <<"I", "N", "T", "4">> -> "INT4"
      [] type_string = <<"I", "N", "T", "4", "[", "]">> -> "INT4_ARRAY"
      [] type_string = <<"I", "N", "T", "2">> -> "INT2"
      [] type_string = <<"I", "N", "T", "2", "[", "]">> -> "INT2_ARRAY"
      [] type_string = <<"F", "L", "O", "A", "T", "8">> -> "FLOAT8"
      [] type_string = <<"F", "L", "O", "A", "T", "8", "[", "]">> -> "FLOAT8_ARRAY"
      [] type_string = <<"F", "L", "O", "A", "T", "4">> -> "FLOAT4"
      [] type_string = <<"F", "L", "O", "A", "T", "4", "[", "]">> -> "FLOAT4_ARRAY"
      [] type_string = <<"U", "U", "I", "D">> -> "UUID"
      [] type_string = <<"U", "U", "I", "D", "[", "]">> -> "UUID_ARRAY"
      [] type_string = <<"T", "E", "X", "T">> -> "TEXT"
      [] type_string = <<"V", "A", "R", "C", "H", "A", "R">> -> "VARCHAR"
      [] type_string = <<"V", "A", "R", "C", "H", "A", "R", "[", "]">> -> "VARCHAR_ARRAY"
      [] type_string = <<"T", "E", "X", "T", "[", "]">> -> "TEXT_ARRAY"
      [] type_string = <<"T", "I", "M", "E", "S", "T", "A", "M", "P">> -> "TIMESTAMP"
      [] type_string = <<"T", "I", "M", "E", "S", "T", "A", "M", "P", "[", "]">> -> "TIMESTAMP_ARRAY"
      [] type_string = <<"T", "I", "M", "E", "S", "T", "A", "M", "P", "T", "Z">> -> "TIMESTAMPTZ"
      [] type_string = <<"T", "I", "M", "E", "S", "T", "A", "M", "P", "T", "Z", "[", "]">> -> "TIMESTAMPTZ_ARRAY"
      [] type_string = <<"D", "A", "T", "E">> -> "DATE"
      [] type_string = <<"D", "A", "T", "E", "[", "]">> -> "DATE_ARRAY"
      [] type_string = <<"T", "I", "M", "E">> -> "TIME"
      [] type_string = <<"T", "I", "M", "E", "[", "]">> -> "TIME_ARRAY"

\* The binding type of a name no arm of the query macro's table matches.
DynToSql == "&'a (dyn ts_sql_helper_lib::postgres::types::ToSql + Sync)"

\* query lines 180-215: the binding type of a name, with the `_` arm.
param_type(name) ==
    CASE name = <<"B", "O", "O", "L">> -> "&'a bool"
      [] name = <<"B", "O", "O", "L", "[", "]">> -> "&'a [bool]"
      [] name = <<"B", "Y", "T", "E", "A">> -> "&'a [u8]"
      [] name = <<"B", "Y", "T", "E", "A", "[", "]">> -> "&'a [Vec<u8>]"
      [] name = <<"C", "H", "A", "R">> -> "&'a i8"
      [] name = <<"C", "H", "A", "R", "[", "]">> -> "&'a [i8]"
      [] name = <<"I", "N", "T", "8">> -> "&'a i64"
      [] name = <<"I", "N", "T", "8", "[", "]">> -> "&'a [i64]"
      [] name = <<"I", "N", "T", "4">> -> "&'a i32"
      [] name = <<"I", "N", "T", "4", "[", "]">> -> "&'a [i32]"
      [] name = <<"I", "N", "T", "2">> -> "&'a i16"
      [] name = <<"I", "N", "T", "2", "[", "]">> -> "&'a [i16]"
      [] name = <<"F", "L", "O", "A", "T", "8">> -> "&'a f64"
      [] name = <<"F", "L", "O", "A", "T", "8", "[", "]">> -> "&'a [f64]"
      [] name = <<"F", "L", "O", "A", "T", "4">> -> "&'a f32"
      [] name = <<"F", "L", "O", "A", "T", "4", "[", "]">> -> "&'a [f32]"
      [] name = <<"U", "U", "I", "D">> -> "&'a uuid::Uuid"
      [] name = <<"U", "U", "I", "D", "[", "]">> -> "&'a [uuid::Uuid]"
      [] name = <<"T", "E", "X", "T">> -> "&'a str"
      [] name = <<"V", "A", "R", "C", "H", "A", "R">> -> "&'a str"
      [] name = <<"V", "A", "R", "C", "H", "A", "R", "[", "]">> -> "&'a [String]"
      [] name = <<"T", "E", "X", "T", "[", "]">> -> "&'a [String]"
      [] name = <<"T", "I", "M", "E", "S", "T", "A", "M", "P">> -> "&'a ts_sql_helper_lib::SqlDateTime"
      [] name = <<"T", "I", "M", "E", "S", "T", "A", "M", "P", "[", "]">> -> "&'a [ts_sql_helper_lib::SqlDateTime]"
      [] name = <<"T", "I", "M", "E", "S", "T", "A", "M", "P", "T", "Z">> -> "&'a ts_sql_helper_lib::SqlTimestamp"
      [] name = <<"T", "I", "M", "E", "S", "T", "A", "M", "P", "T", "Z", "[", "]">> -> "&'a [ts_sql_helper_lib::SqlTimestamp]"
      [] name = <<"D", "A", "T", "E">> -> "&'a ts_sql_helper_lib::SqlDate"
      [] name = <<"D", "A", "T", "E", "[", "]">> -> "&'a [ts_sql_helper_lib::SqlDate]"
      [] name = <<"T", "I", "M", "E">> -> "&'a ts_sql_helper_lib::SqlTime"
      [] name = <<"T", "I", "M", "E", "[", "]">> -> "&'a [ts_sql_helper_lib::SqlTime]"
      [] OTHER -> DynToSql

\* The query macro's REGEX `(?m)(\r\n|\r|\n| ){2,}` replaced by " " on the
\* trimmed text: a run of two or more spaces and line breaks becomes a space.
LineBreakOrSpace == {" ", "\n", "\r"}

RECURSIVE CollapseRuns(_)
CollapseRuns(text) ==
    IF text = <<>> THEN <<>>
    ELSE IF Len(text) >= 2 /\ text[1] \in LineBreakOrSpace /\ text[2] \in LineBreakOrSpace
    THEN LET rest == CHOOSE n \in 0..Len(text) :
                        /\ \A i \in 1..n : text[i] \in LineBreakOrSpace
                        /\ (n = Len(text) \/ text[n + 1] \notin LineBreakOrSpace)
         IN  <<" ">> \o CollapseRuns(SubSeq(text, rest + 1, Len(text)))
    ELSE <<text[1]>> \o CollapseRuns(Tail(text))

(***************************************************************************)
(* SpecScan: one scan of one text by one of the two scanners.              *)
(***************************************************************************)
\* The pieces texts are built from.
SegSpace == <<" ">>    \* whitespace
SegPlaceholder == <<"$", "1">>    \* a placeholder
SegDollar == <<"$">>    \* a dollar sign without digits
SegCast == <<":", ":">>    \* the cast operator
SegInt4 == <<"I", "N", "T", "4">>    \* a known name with a digit
SegTextArray == <<"T", "E", "X", "T", "[", "]">>    \* a known array name
SegLowerInt4 == <<"i", "n", "t", "4">>    \* a known name in lower case
SegFoo == <<"F", "O", "O">>    \* a name no table knows

Segments == {SegSpace, SegPlaceholder, SegDollar, SegCast, SegInt4, SegTextArray, SegLowerInt4, SegFoo}

RECURSIVE Concat(_)
Concat(pieces) == IF pieces = <<>> THEN <<>> ELSE pieces[1] \o Concat(Tail(pieces))

Texts == {Concat(pieces) : pieces \in SeqsUpTo(Segments, MaxSegs)}

InitScan ==
    /\ sText \in Texts
    /\ \/ sImpl = "get_param_types" /\ sOptional = {}
       \/ sImpl = "query" /\ sOptional \in {{}, {2}}
    /\ sOut = ScanIdle

\* get_param_types(sql): scan, then resolve every name; a name without an
\* arm panics.
GetParamTypes ==
    /\ sImpl = "get_param_types" /\ sOut.status = "idle"
    /\ LET names == parameter_types("get_param_types", sText)
       IN  sOut' = IF \A i \in 1..Len(names) : names[i] \in KNOWN_TYPES
                   THEN ScanResult("Ok", names, [i \in 1..Len(names) |-> TypeOfName(names[i])], <<>>)
                   ELSE ScanResult("panic", names, <<>>, <<>>)
    /\ UNCHANGED <<sText, sImpl, sOptional>>
    /\ UNCHANGED notScanVars

\* query!(...) lines 76-223: trim and collapse the text, scan it, then give
\* every name its binding type, wrapped in Option for the optional positions.
Query ==
    /\ sImpl = "query" /\ sOut.status = "idle"
    /\ LET names == parameter_types("query", CollapseRuns(Trim(sText)))
       IN  sOut' = ScanResult("Ok", names,
                              [i \in 1..Len(names) |-> param_type(names[i])],
                              [i \in 1..Len(names) |-> i \in sOptional])
    /\ UNCHANGED <<sText, sImpl, sOptional>>
    /\ UNCHANGED notScanVars

NextScan ==
    \/ GetParamTypes
    \/ Query



(***************************************************************************)
(* SpecBind: the operators of one operation body and the parameter struct  *)
(* Operation::parameter_tokens emits for it (crates/sql-helper).           *)
(***************************************************************************)
MaxDirectives == 2      \* lines of an operation body

LineOptTwo == <<"-", "-", " ", "o", "p", "t", " ", "$", "2">>    \* directive: parameter 2 is optional
LineOptNoDollar == <<"-", "-", " ", "o", "p", "t", " ", "x", "2">>    \* directive whose argument has another first character than `$`

\* The lines operation bodies are built from.
BodyLines == {LineStmt, LineOptOne, LineOptTwo, LineOptZero, LineOptBad, LineOptNoDollar}

Bodies == {JoinLines(ls) : ls \in SeqsUpTo(BodyLines, MaxDirectives)}

\* The types of the operation's parameters in this specification.
BoundTypes == {"INT4", "VARCHAR", "BOOL_ARRAY"}

\* parameter_tokens lines 363-406: the binding type of a parameter.
token_type(param) ==
    CASE param = "BOOL" -> "&'a bool"
      [] param = "BOOL_ARRAY" -> "&'a bool"
      [] param = "BYTEA" -> "&'a [Vec<u8>]"
      [] param = "BYTEA_ARRAY" -> "&'a [u8]"
      [] param = "CHAR" -> "&'a i8"
      [] param = "CHAR_ARRAY" -> "&'a [i8]"
      [] param = "INT8" -> "&'a i64"
      [] param = "INT8_ARRAY" -> "&'a [i64]"
      [] param = "INT4" -> "&'a i32"
      [] param = "INT4_ARRAY" -> "&'a [i32]"
      [] param = "INT2" -> "&'a i16"
      [] param = "INT2_ARRAY" -> "&'a [i16]"
      [] param = "FLOAT8" -> "&'a f64"
      [] param = "FLOAT8_ARRAY" -> "&'a [f64]"
      [] param = "FLOAT4" -> "&'a f32"
      [] param = "FLOAT4_ARRAY" -> "&'a [f32]"
      [] param = "UUID" -> "&'a uuid::Uuid"
      [] param = "UUID_ARRAY" -> "&'a [uuid::Uuid]"
      [] param = "TEXT" -> "&'a str"
      [] param = "VARCHAR" -> "&'a str"
      [] param = "VARCHAR_ARRAY" -> "&'a [String]"
      [] param = "TEXT_ARRAY" -> "&'a [String]"
      [] param = "TIMESTAMP" -> "&'a sql_helper_lib::SqlDateTime"
      [] param = "TIMESTAMP_ARRAY" -> "&'a [sql_helper_lib::SqlDateTime]"
      [] param = "TIMESTAMPTZ" -> "&'a sql_helper_lib::SqlTimestamp"
      [] param = "TIMESTAMPTZ_ARRAY" -> "&'a [sql_helper_lib::SqlTimestamp]"
      [] param = "DATE" -> "&'a sql_helper_lib::SqlDate"
      [] param = "DATE_ARRAY" -> "&'a [sql_helper_lib::SqlDate]"
      [] param = "TIME" -> "&'a sql_helper_lib::SqlTime"
      [] param = "TIME_ARRAY" -> "&'a [sql_helper_lib::SqlTime]"
      [] OTHER -> "unreachable!()"

\* parameter_to_type (query/parameters.rs lines 115-147): the binding type the
\* query macro emits for a postgres Type.
parameter_to_type(parameter_type) ==
    CASE parameter_type = "BOOL" -> "&'a bool"
      [] parameter_type = "BOOL_ARRAY" -> "&'a [bool]"
      [] parameter_type = "BYTEA" -> "&'a [u8]"
      [] parameter_type = "BYTEA_ARRAY" -> "&'a [Vec<u8>]"
      [] parameter_type = "CHAR" -> "&'a i8"
      [] parameter_type = "CHAR_ARRAY" -> "&'a [i8]"
      [] parameter_type = "INT8" -> "&'a i64"
      [] parameter_type = "INT8_ARRAY" -> "&'a [i64]"
      [] parameter_type = "INT4" -> "&'a i32"
      [] parameter_type = "INT4_ARRAY" -> "&'a [i32]"
      [] parameter_type = "INT2" -> "&'a i16"
      [] parameter_type = "INT2_ARRAY" -> "&'a [i16]"
      [] parameter_type = "FLOAT8" -> "&'a f64"
      [] parameter_type = "FLOAT8_ARRAY" -> "&'a [f64]"
      [] parameter_type = "FLOAT4" -> "&'a f32"
      [] parameter_type = "FLOAT4_ARRAY" -> "&'a [f32]"
      [] parameter_type = "UUID" -> "&'a uuid::Uuid"
      [] parameter_type = "UUID_ARRAY" -> "&'a [uuid::Uuid]"
      [] parameter_type = "TEXT" -> "&'a str"
      [] parameter_type = "VARCHAR" -> "&'a str"
      [] parameter_type = "VARCHAR_ARRAY" -> "&'a [String]"
      [] parameter_type = "TEXT_ARRAY" -> "&'a [String]"
      [] parameter_type = "TIMESTAMP" -> "&'a ts_sql_helper_lib::SqlDateTime"
      [] parameter_type = "TIMESTAMP_ARRAY" -> "&'a [ts_sql_helper_lib::SqlDateTime]"
      [] parameter_type = "TIMESTAMPTZ" -> "&'a ts_sql_helper_lib::SqlTimestamp"
      [] parameter_type = "TIMESTAMPTZ_ARRAY" -> "&'a [ts_sql_helper_lib::SqlTimestamp]"
      [] parameter_type = "DATE" -> "&'a ts_sql_helper_lib::SqlDate"
      [] parameter_type = "DATE_ARRAY" -> "&'a [ts_sql_helper_lib::SqlDate]"
      [] parameter_type = "TIME" -> "&'a ts_sql_helper_lib::SqlTime"
      [] parameter_type = "TIME_ARRAY" -> "&'a [ts_sql_helper_lib::SqlTime]"
      [] OTHER -> "unreachable!()"

\* parameter_tokens lines 408-414: does an operator mark this index optional?
is_optional(operators, index) ==
    \E i \in 1..Len(operators) :
        operators[i].kind = "Optional" /\ operators[i].parameter_index = index

\* One field of the emitted struct: `pub p{index + 1}: #param_type`.
Field(type, optional) == [type |-> type, optional |-> optional]

NotCollected == Collected("none", <<>>)

ParkedBind ==
    /\ bBody = <<>> /\ bParams = <<>> /\ bPc = "done"
    /\ bOperators = NotCollected /\ bFields = <<>>

InitBind ==
    /\ bBody \in Bodies
    /\ bParams \in SeqsUpTo(BoundTypes, MaxParams)
    /\ bPc = "operators"
    /\ bOperators = NotCollected
    /\ bFields = <<>>

\* Operation::new lines 121-131: the operators of the body, or the error
\* (or panic) that ends the construction.
CollectBodyOperators ==
    /\ bPc = "operators"
    /\ \E collected \in CollectOperators(OperatorCaptures(Lines(Trim(bBody)))) :
          /\ bOperators' = collected
          /\ bPc' = IF collected.status = "Ok" THEN "tokens" ELSE "done"
    /\ UNCHANGED <<bBody, bParams, bFields>>
    /\ UNCHANGED notBindVars

\* Operation::parameter_tokens: one field per parameter, wrapped in Option
\* when an operator names its index.
ParameterTokens ==
    /\ bPc = "tokens"
    /\ bFields' = [p \in 1..Len(bParams) |->
                      Field(token_type(bParams[p]), is_optional(bOperators.operators, p - 1))]
    /\ bPc' = "done"
    /\ UNCHANGED <<bBody, bParams, bOperators>>
    /\ UNCHANGED notBindVars

NextBind ==
    \/ CollectBodyOperators
    \/ ParameterTokens


(***************************************************************************)
(* SpecData: the synthetic values of one parameter type, generated by      *)
(* repeated calls while the wall clock advances.                           *)
(***************************************************************************)
MaxClock == 2      \* ticks of the wall clock
MaxCalls == 2      \* calls of the generator

\* What the random source can return.
Draws == {"r1", "r2"}

\* sql-helper-lib's data_for_type (test.rs lines 96-215).  Its arms are those
\* of Operation::data_for_type; they differ only in drawing every element of
\* a TEXT / UUID array separately, which a Value does not record.
lib_data_for_type(param) == data_for_type(param)

\* The value Operation::is_valid (src/src) pushes for a type name.
is_valid_data(name) ==
    CASE name = "bool"    -> Value("scalar", "bool", 1, 0, "random")
      [] name = "bytea"   -> Value("scalar", "bytes", 32, 0, "random")
      [] name = "char"    -> Value("scalar", "i8", 1, 0, "random")
      [] name = "int8"    -> Value("scalar", "i64", 1, 0, "random")
      [] name = "int4"    -> Value("scalar", "i32", 1, 0, "random")
      [] name = "int2"    -> Value("scalar", "i16", 1, 0, "random")
      [] name = "float8"  -> Value("scalar", "f64", 1, 0, "random")
      [] name = "float4"  -> Value("scalar", "f32", 1, 0, "random")
      [] name \in {"text", "varchar"}
                          -> Value("scalar", "String", 32, 0, "random")
      [] name \in {"timestamp", "timestamptz"}
                          -> Value("scalar", "SystemTime", 1, 0, "now")
      [] name = "uuid"    -> Value("scalar", "Uuid", 1, 0, "random")
      [] OTHER            -> NoData

\* The generator of each implementation.
Generator(generator, param) ==
    CASE generator = "operation" -> data_for_type(param)
      [] generator = "lib"       -> lib_data_for_type(param)
      [] generator = "is_valid"  -> is_valid_data(TypeName(param))

\* A value as the caller gets it: the instant read from the clock when it
\* was made (-1 when the clock was not read) and what the random source
\* returned ("none" when it was not asked).
Generated(data, at, draw) == [data |-> data, at |-> at, draw |-> draw]

ParkedData == gImpl = "none" /\ gType = "none" /\ clock = 0 /\ gCalls = <<>>

InitData ==
    /\ gImpl \in {"operation", "lib", "is_valid"}
    /\ gType \in CatalogTypes
    /\ clock = 0
    /\ gCalls = <<>>

\* Time passes.
Tick ==
    /\ clock < MaxClock
    /\ clock' = clock + 1
    /\ UNCHANGED <<gImpl, gType, gCalls>>
    /\ UNCHANGED notDataVars

\* One call of the generator for gType.
Generate ==
    /\ Len(gCalls) < MaxCalls
    /\ Generator(gImpl, gType) /= NoData
    /\ LET data == Generator(gImpl, gType)
       IN  \E draw \in Draws :
              gCalls' = Append(gCalls,
                               CASE data.from = "now"    -> Generated(data, clock, "none")
                                 [] data.from = "random" -> Generated(data, -1, draw)
                                 [] OTHER                -> Generated(data, -1, "none"))
    /\ UNCHANGED <<gImpl, gType, clock>>
    /\ UNCHANGED notDataVars

NextData ==
    \/ Tick
    \/ Generate

(***************************************************************************)
(* SpecTeardown: tests (threads of one test binary) that share the test    *)
(* database of sql-helper-lib: get_test_database_connection, the use of    *)
(* the client, and Drop for TestTeardown.                                  *)
(***************************************************************************)
MaxTests == 3      \* tests in the binary

Tests == 1..MaxTests

\* How the closure given to CLIENT.get_or_init can end: the client is made,
\* `docker run` fails (assert!), or connecting / migrating fails (unwrap).
InitOutcomes == {"ok", "run_failed", "connect_failed"}

ParkedTeardown ==
    /\ COUNTER = 0 /\ CLIENT = "unset" /\ container = "absent"
    /\ tdPc = <<>> /\ tdRemovals = 0

InitTeardown ==
    /\ COUNTER = 0
    /\ CLIENT = "unset"
    /\ container = "absent"
    /\ tdPc = [t \in Tests |-> "start"]
    /\ tdRemovals = 0

\* get_test_database_connection lines 56-90: CLIENT.get_or_init(..).clone().
\* The first caller runs the closure (the OnceLock serializes callers and
\* stays unset when the closure panics); later callers get the stored client.
GetOrInit(t) ==
    /\ tdPc[t] = "start"
    /\ IF CLIENT = "set"
       THEN /\ tdPc' = [tdPc EXCEPT ![t] = "has_client"]
            /\ UNCHANGED <<CLIENT, container>>
       ELSE \E outcome \in InitOutcomes :
              /\ CLIENT' = IF outcome = "ok" THEN "set" ELSE "unset"
              /\ container' = IF outcome = "run_failed" THEN container ELSE "running"
              /\ tdPc' = [tdPc EXCEPT ![t] = IF outcome = "ok" THEN "has_client" ELSE "panicked"]
    /\ UNCHANGED <<COUNTER, tdRemovals>>
    /\ UNCHANGED notTeardownVars

\* get_test_database_connection line 92, TestTeardown::new:
\* COUNTER.fetch_add(1, SeqCst).
NewTeardown(t) ==
    /\ tdPc[t] = "has_client"
    /\ COUNTER' = COUNTER + 1
    /\ tdPc' = [tdPc EXCEPT ![t] = "testing"]
    /\ UNCHANGED <<CLIENT, container, tdRemovals>>
    /\ UNCHANGED notTeardownVars

\* The test locks the shared client and talks to the database.
UseClient(t) ==
    /\ tdPc[t] = "testing"
    /\ tdPc' = [tdPc EXCEPT ![t] = "used"]
    /\ UNCHANGED <<COUNTER, CLIENT, container, tdRemovals>>
    /\ UNCHANGED notTeardownVars

\* Drop for TestTeardown lines 30-32: `if COUNTER.fetch_sub(1, SeqCst) != 1
\* { return; }`.
DropDecrement(t) ==
    /\ tdPc[t] \in {"testing", "used"}
    /\ COUNTER' = COUNTER - 1
    /\ tdPc' = [tdPc EXCEPT ![t] = IF COUNTER /= 1 THEN "dropped" ELSE "removing"]
    /\ UNCHANGED <<CLIENT, container, tdRemovals>>
    /\ UNCHANGED notTeardownVars

\* Drop for TestTeardown lines 34-40: `docker rm --force test-database`.
RemoveContainer(t) ==
    /\ tdPc[t] = "removing"
    /\ container' = IF container = "absent" THEN "absent" ELSE "removed"
    /\ tdRemovals' = tdRemovals + 1
    /\ tdPc' = [tdPc EXCEPT ![t] = "dropped"]
    /\ UNCHANGED <<COUNTER, CLIENT>>
    /\ UNCHANGED notTeardownVars

GetOrInitStep == \E t \in Tests : GetOrInit(t)

NewTeardownStep == \E t \in Tests : NewTeardown(t)

UseClientStep == \E t \in Tests : UseClient(t)

DropDecrementStep == \E t \in Tests : DropDecrement(t)

RemoveContainerStep == \E t \in Tests : RemoveContainer(t)

NextTeardown ==
    \/ GetOrInitStep
    \/ NewTeardownStep
    \/ UseClientStep
    \/ DropDecrementStep
    \/ RemoveContainerStep

(***************************************************************************)
(* SpecMigrations: perform_migrations of sql-helper-lib over a directory   *)
(* of entries.  File names are sequences of characters.                    *)
(***************************************************************************)
MaxFiles == 3      \* entries in the migrations directory

FileNames ==
    { <<"2", ".", "s", "q", "l">>,
      <<"1", "0", ".", "s", "q", "l">>,
      <<"b", ".", "s", "q", "l">>,
      <<"B", ".", "s", "q", "l">>,
      <<"a", ".", "t", "x", "t">>,
      <<".", "s", "q", "l">> }

\* The byte of a character (OsString compares byte by byte).
Byte(c) ==
    CASE c = "." -> 46
      [] c = "0" -> 48
      [] c = "1" -> 49
      [] c = "2" -> 50
      [] c = "B" -> 66
      [] c = "a" -> 97
      [] c = "b" -> 98
      [] c = "l" -> 108
      [] c = "q" -> 113
      [] c = "s" -> 115
      [] c = "t" -> 116
      [] c = "x" -> 120

\* Ord for OsString: lexicographic on bytes, a proper prefix is smaller.
RECURSIVE OsLess(_, _)
OsLess(a, b) ==
    IF b = <<>> THEN FALSE
    ELSE IF a = <<>> THEN TRUE
    ELSE IF Byte(Head(a)) /= Byte(Head(b)) THEN Byte(Head(a)) < Byte(Head(b))
    ELSE OsLess(Tail(a), Tail(b))

\* Path::extension: the part of the file name after its last dot; none when
\* there is no dot or the only dot is the first character.
extension(name) ==
    LET dots == {i \in 1..Len(name) : name[i] = "."}
        last == CHOOSE i \in dots : \A j \in dots : j <= i
    IN  IF dots = {} \/ last = 1 THEN <<>>
        ELSE <<SubSeq(name, last + 1, Len(name))>>

\* get_migration_targets lines 75-89: the filter_map keeps the entries whose
\* extension is `sql`.
RECURSIVE filter_map(_)
filter_map(directory) ==
    IF directory = <<>> THEN <<>>
    ELSE IF extension(Head(directory)) = << <<"s", "q", "l">> >>
         THEN <<Head(directory)>> \o filter_map(Tail(directory))
         ELSE filter_map(Tail(directory))

\* Insertion of one entry into a sorted vector, after the entries that are
\* not greater (the sort is stable).
RECURSIVE InsertByKey(_, _)
InsertByKey(entry, sorted) ==
    IF sorted = <<>> THEN <<entry>>
    ELSE IF OsLess(entry, Head(sorted)) THEN <<entry>> \o sorted
    ELSE <<Head(sorted)>> \o InsertByKey(entry, Tail(sorted))

RECURSIVE SortFrom(_, _)
SortFrom(entries, sorted) ==
    IF entries = <<>> THEN sorted
    ELSE SortFrom(Tail(entries), InsertByKey(Head(entries), sorted))

\* The entries left in the order read_dir gave them.
sort_skipped(entries) == entries

\* get_migration_targets line 92: entries.sort_by_key(|entry| entry.file_name()).
sort_by_key(entries) == SortFrom(entries, <<>>)

\* What get_migration_targets can meet before it has the entries: the
\* directory is missing, and so holds nothing (or current_dir fails), fs::exists fails, read_dir
\* fails, an entry of the iterator is an error, or all is read.
TargetOutcomes == {"missing", "exists_error", "read_dir_error", "entry_error", "listed"}

Listings ==
    {l \in SeqsUpTo(FileNames, MaxFiles) : \A i, j \in 1..Len(l) : i /= j => l[i] /= l[j]}

ParkedMigrations ==
    /\ mListing = <<>> /\ mEntries = <<>> /\ mIdx = 0
    /\ mPc = "done" /\ mCalls = <<>> /\ mResult = "Parked"

InitMigrations ==
    /\ mListing \in Listings
    /\ mEntries = <<>>
    /\ mIdx = 1
    /\ mPc = "start"
    /\ mCalls = <<>>
    /\ mResult = "Running"

\* perform_migrations lines 18-20 with get_migration_targets lines 56-95.
GetMigrationTargets ==
    /\ mPc = "start"
    /\ \E outcome \in TargetOutcomes :
         /\ outcome = "missing" => mListing = <<>>
         /\ mEntries' = IF outcome = "listed" THEN sort_by_key(filter_map(mListing)) ELSE <<>>
         /\ mPc' = IF outcome = "listed" THEN "read" ELSE "done"
         /\ mResult' = CASE outcome = "missing" -> "Ok"
                         [] outcome = "exists_error" -> "panic"
                         [] outcome = "read_dir_error" -> "ReadMigrationDirectory"
                         [] outcome = "entry_error" -> "ReadMigrationFile"
                         [] outcome = "listed" -> "Running"
    /\ UNCHANGED <<mListing, mIdx, mCalls>>
    /\ UNCHANGED notMigrationsVars

\* perform_migrations lines 22-24: fs::read_to_string(entry.path()).
ReadToString ==
    /\ mPc = "read"
    /\ mIdx <= Len(mEntries)
    /\ \E readable \in BOOLEAN :
         /\ mPc' = IF readable THEN "execute" ELSE "done"
         /\ mResult' = IF readable THEN mResult ELSE "ReadMigrationFile"
    /\ UNCHANGED <<mListing, mEntries, mIdx, mCalls>>
    /\ UNCHANGED notMigrationsVars

\* perform_migrations lines 25-27: client.batch_execute(&sql).
BatchExecute ==
    /\ mPc = "execute"
    /\ mCalls' = Append(mCalls, mEntries[mIdx])
    /\ \E executed_ok \in BOOLEAN :
         IF executed_ok
         THEN /\ mIdx' = mIdx + 1
              /\ mPc' = "read"
              /\ UNCHANGED mResult
         ELSE /\ mPc' = "done"
              /\ mResult' = "ExecuteMigration"
              /\ UNCHANGED mIdx
    /\ UNCHANGED <<mListing, mEntries>>
    /\ UNCHANGED notMigrationsVars

\* perform_migrations line 30: the loop is over, Ok(()).
FinishMigrations ==
    /\ mPc = "read"
    /\ mIdx > Len(mEntries)
    /\ mPc' = "done"
    /\ mResult' = "Ok"
    /\ UNCHANGED <<mListing, mEntries, mIdx, mCalls>>
    /\ UNCHANGED notMigrationsVars

NextMigrations ==
    \/ GetMigrationTargets
    \/ ReadToString
    \/ BatchExecute
    \/ FinishMigrations

(***************************************************************************)
(* SpecError: the SqlError trait of sql-helper-lib, applied to a result    *)
(* and, as callers do with `?`, applied again to what an Ok hands back.    *)
(*   code  <<>> for an error without a database code, <<state>> otherwise  *)
(***************************************************************************)
MaxChain == 2      \* SqlError calls chained on one result

SqlStates == {"FOREIGN_KEY_VIOLATION", "UNIQUE_VIOLATION", "CHECK_VIOLATION"}

SqlResult(is_ok, value, code) == [is_ok |-> is_ok, value |-> value, code |-> code]

NoSqlResult == SqlResult(TRUE, "none", <<>>)

\* The values of Result<T, postgres::Error>.
SqlResults ==
    {SqlResult(TRUE, v, <<>>) : v \in {"row1", "row2"}}
        \cup {SqlResult(FALSE, "none", <<c>>) : c \in SqlStates}
        \cup {SqlResult(FALSE, "none", <<>>)}

\* The closures handed in, named by the error they build.
Closures == {"e1", "e2"}

\* Result<Self, E> together with the number of times f ran.
Mapped(is_ok, kept, error, f_calls) ==
    [is_ok |-> is_ok, kept |-> kept, error |-> error, f_calls |-> f_calls]

\* fk_violation with the test for the code left out.
fk_violation_any_code(self, f) ==
    IF ~self.is_ok /\ self.code /= <<>>
    THEN Mapped(FALSE, NoSqlResult, f, 1)
    ELSE Mapped(TRUE, self, "none", 0)

\* error.rs lines 10-20.
fk_violation(self, f) ==
    IF ~self.is_ok /\ self.code /= <<>> /\ self.code[1] = "FOREIGN_KEY_VIOLATION"
    THEN Mapped(FALSE, NoSqlResult, f, 1)
    ELSE Mapped(TRUE, self, "none", 0)

\* error.rs lines 22-32.
unique_violation(self, f) ==
    IF ~self.is_ok /\ self.code /= <<>> /\ self.code[1] = "UNIQUE_VIOLATION"
    THEN Mapped(FALSE, NoSqlResult, f, 1)
    ELSE Mapped(TRUE, self, "none", 0)

ParkedError == eSelf = NoSqlResult /\ eChain = <<>>

InitError == eSelf \in SqlResults /\ eChain = <<>>

\* The result the next call is made on: the original one, or what the last
\* call handed back in its Ok.
Receiver == IF eChain = <<>> THEN eSelf ELSE eChain[Len(eChain)].returned.kept

CanCall ==
    /\ Len(eChain) < MaxChain
    /\ eChain /= <<>> => eChain[Len(eChain)].returned.is_ok

FkViolation ==
    /\ CanCall
    /\ \E f \in Closures :
         eChain' = Append(eChain, [method |-> "fk_violation", f |-> f,
                                   returned |-> fk_violation(Receiver, f)])
    /\ UNCHANGED eSelf
    /\ UNCHANGED notErrorVars

UniqueViolation ==
    /\ CanCall
    /\ \E f \in Closures :
         eChain' = Append(eChain, [method |-> "unique_violation", f |-> f,
                                   returned |-> unique_violation(Receiver, f)])
    /\ UNCHANGED eSelf
    /\ UNCHANGED notErrorVars

NextError ==
    \/ FkViolation
    \/ UniqueViolation

(***************************************************************************)
(* SpecDatabase: main of crates/sql-helper with Database::new and Drop for *)
(* Database.  The ten seconds of the connection loop are MaxWait rounds of *)
(* one attempt and one sleep.                                              *)
(***************************************************************************)
MaxWait == 3      \* rounds of the connection loop before the timeout

ParkedDatabase ==
    /\ dCommand = "none" /\ dOption = FALSE /\ dPc = "exited" /\ dElapsed = 0
    /\ dContainer = "absent" /\ dRemoveRuns = 0 /\ dResult = "parked"

InitDatabase ==
    /\ dCommand \in {"GenerateBindings", "StartDatabase"}
    /\ dOption \in BOOLEAN
    /\ dPc = "docker_run"
    /\ dElapsed = 0
    /\ dContainer = "absent"
    /\ dRemoveRuns = 0
    /\ dResult = "running"

\* `return Err(..)` / `?` of main before a Database exists: nothing to drop.
ExitWithout(error) ==
    /\ dPc' = "exited"
    /\ dResult' = error

\* An exit of main while `database` is alive: the value is dropped first.
ExitDropping(outcome) ==
    /\ dPc' = "drop"
    /\ dResult' = outcome

\* Database::new lines 94-125: `docker run --detach ..`, spawn, wait, status.
DockerRun ==
    /\ dPc = "docker_run"
    /\ \E outcome \in {"SpawnChild", "ChildStatus", "started"} :
         IF outcome = "started"
         THEN /\ dContainer' = "running"
              /\ dPc' = "connect"
              /\ UNCHANGED dResult
         ELSE /\ ExitWithout(outcome)
              /\ UNCHANGED dContainer
    /\ UNCHANGED <<dCommand, dOption, dElapsed, dRemoveRuns>>
    /\ UNCHANGED notDatabaseVars

\* Database::new lines 131-152: one round of `while client.is_none()`: the
\* timeout test, else one Client::connect and the sleep.  Ok(Self {..}) once
\* a client exists; main goes on with its command.
Connect ==
    /\ dPc = "connect"
    /\ IF dElapsed > MaxWait
       THEN /\ ExitWithout("Timeout")
            /\ UNCHANGED dElapsed
       ELSE \E connected \in BOOLEAN :
              /\ dElapsed' = dElapsed + 1
              /\ dPc' = IF ~connected THEN "connect"
                        ELSE IF dCommand = "GenerateBindings" THEN "parse"
                        ELSE "migrate"
              /\ UNCHANGED dResult
    /\ UNCHANGED <<dCommand, dOption, dContainer, dRemoveRuns>>
    /\ UNCHANGED notDatabaseVars

\* main lines 31-33: FileParser::parse(&source, &mut database.client)?, which
\* runs OperationGroup::parse and can return its error or panic in it.
ParseSource ==
    /\ dPc = "parse"
    /\ \E outcome \in {"Ok", "ParseError", "panic"} :
         IF outcome = "Ok"
         THEN dPc' = "write" /\ UNCHANGED dResult
         ELSE ExitDropping(outcome)
    /\ UNCHANGED <<dCommand, dOption, dElapsed, dContainer, dRemoveRuns>>
    /\ UNCHANGED notDatabaseVars

\* main lines 35-55 and 83: file_parser.write(..)?, then Ok(()).
WriteBindings ==
    /\ dPc = "write"
    /\ \E outcome \in {"Ok", "WriteError"} : ExitDropping(outcome)
    /\ UNCHANGED <<dCommand, dOption, dElapsed, dContainer, dRemoveRuns>>
    /\ UNCHANGED notDatabaseVars

\* main lines 60-66: read the migrations and run them, when a path is given.
RunMigrations ==
    /\ dPc = "migrate"
    /\ \E outcome \in (IF dOption THEN {"Ok", "ReadError", "ExecuteError"} ELSE {"Ok"}) :
         IF outcome = "Ok"
         THEN dPc' = "wait" /\ UNCHANGED dResult
         ELSE ExitDropping(outcome)
    /\ UNCHANGED <<dCommand, dOption, dElapsed, dContainer, dRemoveRuns>>
    /\ UNCHANGED notDatabaseVars

\* main lines 68-83: print, wait for a line on stdin, Ok(()).
WaitForEnter ==
    /\ dPc = "wait"
    /\ \E outcome \in {"Ok", "IoError"} : ExitDropping(outcome)
    /\ UNCHANGED <<dCommand, dOption, dElapsed, dContainer, dRemoveRuns>>
    /\ UNCHANGED notDatabaseVars

\* Drop for Database lines 208-220: `docker rm --force name`; a failure of
\* the command panics and leaves the container.
DropDatabase ==
    /\ dPc = "drop"
    /\ dRemoveRuns' = dRemoveRuns + 1
    /\ \E removed \in BOOLEAN :
         /\ dContainer' = IF removed THEN "removed" ELSE dContainer
         /\ dResult' = IF removed THEN dResult ELSE "panic"
    /\ dPc' = "exited"
    /\ UNCHANGED <<dCommand, dOption, dElapsed>>
    /\ UNCHANGED notDatabaseVars

NextDatabase ==
    \/ DockerRun
    \/ Connect
    \/ ParseSource
    \/ WriteBindings
    \/ RunMigrations
    \/ WaitForEnter
    \/ DropDatabase

(***************************************************************************)
(* The specifications.  Each runs one part of the program and parks the    *)
(* variables of the others.                                                *)
(***************************************************************************)
Init == InitDb /\ ParkedText /\ ParkedScan /\ ParkedBind /\ ParkedData /\ ParkedTeardown /\ ParkedMigrations /\ ParkedError /\ ParkedDatabase

Spec == Init /\ [][Next]_vars

TextInit == ParkedDb /\ InitText /\ ParkedScan /\ ParkedBind /\ ParkedData /\ ParkedTeardown /\ ParkedMigrations /\ ParkedError /\ ParkedDatabase

SpecText == TextInit /\ [][NextText]_vars

ScanInit == ParkedDb /\ ParkedText /\ InitScan /\ ParkedBind /\ ParkedData /\ ParkedTeardown /\ ParkedMigrations /\ ParkedError /\ ParkedDatabase

SpecScan == ScanInit /\ [][NextScan]_vars

BindInit == ParkedDb /\ ParkedText /\ ParkedScan /\ InitBind /\ ParkedData /\ ParkedTeardown /\ ParkedMigrations /\ ParkedError /\ ParkedDatabase

SpecBind == BindInit /\ [][NextBind]_vars

DataInit == ParkedDb /\ ParkedText /\ ParkedScan /\ ParkedBind /\ InitData /\ ParkedTeardown /\ ParkedMigrations /\ ParkedError /\ ParkedDatabase

SpecData == DataInit /\ [][NextData]_vars

TeardownInit == ParkedDb /\ ParkedText /\ ParkedScan /\ ParkedBind /\ ParkedData /\ InitTeardown /\ ParkedMigrations /\ ParkedError /\ ParkedDatabase

SpecTeardown == TeardownInit /\ [][NextTeardown]_vars

MigrationsInit == ParkedDb /\ ParkedText /\ ParkedScan /\ ParkedBind /\ ParkedData /\ ParkedTeardown /\ InitMigrations /\ ParkedError /\ ParkedDatabase

SpecMigrations == MigrationsInit /\ [][NextMigrations]_vars

ErrorInit == ParkedDb /\ ParkedText /\ ParkedScan /\ ParkedBind /\ ParkedData /\ ParkedTeardown /\ ParkedMigrations /\ InitError /\ ParkedDatabase

SpecError == ErrorInit /\ [][NextError]_vars

DatabaseInit == ParkedDb /\ ParkedText /\ ParkedScan /\ ParkedBind /\ ParkedData /\ ParkedTeardown /\ ParkedMigrations /\ ParkedError /\ InitDatabase

SpecDatabase == DatabaseInit /\ [][NextDatabase]_vars

(***************************************************************************)
(* Claims about the database-driven loops (checked under Spec).            *)
(***************************************************************************)
\* This step called client.execute and the database answered with an error.
ExecuteFailedStep ==
    /\ dbCalls' = dbCalls + 1
    /\ lastReply'.call = "execute"
    /\ ~lastReply'.ok

\* This step recorded a failure of the current statement that invalidates the
\* operation: an Err or a panic, or is_valid set to false with a printed report.
HardFailureStep ==
    \/ result'.status \in {"Err", "panic"}
    \/ (is_valid /\ ~is_valid') \/ (stmtIdx \in reported' /\ stmtIdx \notin reported)

\* C1: an execution error whose code is neither FOREIGN_KEY_VIOLATION nor
\* CHECK_VIOLATION (or that has no code) is a hard failure that names the
\* statement's index, and once it happened no later statement of the same
\* operation is prepared or executed.
C1_HardFailureAborts ==
    [][ /\ (ExecuteFailedStep /\ ~IsExpectedViolation(lastReply'))
            => (HardFailureStep /\ opFailure' /= NoFailure
                /\ (opFailure = NoFailure => opFailure'.statement_index = stmtIdx))
        /\ (opFailure.stage = "execute" /\ ~IsExpectedViolation(opFailure)
            /\ opIdx' = opIdx)
            => dbCalls' = dbCalls
      ]_vars

\* C2: an execute error with code FOREIGN_KEY_VIOLATION or CHECK_VIOLATION is
\* expected: the operation is not marked invalid and validation goes on with
\* the next statement; every other execute error is a failure.
C2_ExpectedViolationsTolerated ==
    [][ ExecuteFailedStep =>
            IF IsExpectedViolation(lastReply')
            THEN /\ ~HardFailureStep
                 /\ opFailure' = opFailure
                 /\ is_valid' = is_valid
                 /\ pc' \in {"prepare", "opDone", "done"}
            ELSE HardFailureStep
      ]_vars

\* The positions the statement just prepared shares with the established
\* vector and reports with another type.
Mismatches ==
    {k \in 0..(Min(Len(curParams), Len(operation_params)) - 1) :
        curParams[k + 1] /= operation_params[k + 1]}

\* C3: when statement s >= 1 reports at position k a type other than the one
\* established for k, Operation::new fails with MismatchedParams
\* {statement_index: s, param_index: k, expected: established, real: reported}
\* (k being the first such position).
C3_MismatchReported ==
    [][ (impl = "new" /\ pc = "reconcile" /\ pc' /= "reconcile"
         /\ stmtIdx >= 1 /\ Mismatches /= {})
            => LET k == Least(Mismatches)
               IN  result' = Result("Err", FALSE,
                        MismatchedParams(stmtIdx, k, operation_params[k + 1],
                                         curParams[k + 1]))
      ]_vars

\* C7: a batch run validates every operation even after an earlier one
\* failed, and its final status is the AND of the per-operation outcomes.
C7_BatchValidatesAll ==
    (impl \in {"new", "old"} /\ result.status \in {"Ok", "Err"})
        => /\ Len(outcomes) = Len(nStmts)
           /\ (result.status = "Ok" /\ result.value)
                <=> (\A i \in 1..Len(outcomes) : outcomes[i] = "ok")

\* The loop that is running has no generator for this type.
NoGenerator(t) ==
    IF impl = "old" THEN ~is_valid_generates(TypeName(t)) ELSE data_for_type(t) = NoData

\* The first parameter of the prepared statement with no generator, when the
\* statement reaches it (no shorter parameter list, no mismatch before it).
UnsupportedReached ==
    /\ pc \in {"reconcile", "generate"}
    /\ \E k \in 1..Len(curParams) : NoGenerator(curParams[k])
    /\ impl = "new" =>
        /\ Len(curParams) >= Len(operation_params)
        /\ \A k \in Mismatches :
             \E j \in 0..(k - 1) : NoGenerator(curParams[j + 1])

FirstUnsupported == Least({k \in 0..(Len(curParams) - 1) : NoGenerator(curParams[k + 1])})

\* C9: a parameter whose type has no generator makes validation fail hard
\* with UnsupportedParameter naming the statement and the parameter, and no
\* operation is reported valid with a statement that was not executed.
C9_UnsupportedIsHardFailure ==
    [][ /\ (UnsupportedReached /\ pc' /= pc)
            => /\ HardFailureStep
               /\ opFailure'.kind = "UnsupportedParameter"
               /\ opFailure'.statement_index = stmtIdx
               /\ opFailure'.param_index = FirstUnsupported
        /\ (pc' = "opDone" /\ is_valid')
            => executed' = 0..(nStmts[opIdx] - 1)
      ]_vars



\* Operation::new is about to return Ok(Self {..}) for the current operation.
NewSucceeded == impl = "new" /\ pc = "opDone"

\* The largest parameter count a statement of the operation reported.
LargestCount ==
    CHOOSE n \in {Len(statement_params[s]) : s \in 1..Len(statement_params)} :
        \A s \in 1..Len(statement_params) : Len(statement_params[s]) <= n

\* C19: when Operation::new succeeds, the parameter vector is as long as the
\* largest parameter count any statement reported, and it holds at every
\* position of every statement the type that statement reported there.
C19_VectorCoversEveryStatement ==
    NewSucceeded =>
        /\ Len(statement_params) = nStmts[opIdx]
        /\ Len(operation_params) = LargestCount
        /\ \A s \in 1..Len(statement_params) :
              \A i \in 1..Len(statement_params[s]) :
                  operation_params[i] = statement_params[s][i]

\* An operation succeeded whose second statement appended a position to the
\* vector the first one established.
C19_SecondStatementAppended ==
    /\ NewSucceeded
    /\ Len(statement_params) = 2
    /\ Len(statement_params[1]) = 1
    /\ Len(statement_params[2]) = 2

\* C20: Operation::new returns normally, Ok or a ParseOperationGroupError,
\* for every sequence of statements: it never aborts on the slice of the
\* reported parameters when a statement reports fewer parameters than are
\* established.
C20_NewReturnsNormally ==
    impl = "new" => result.status /= "panic"

(***************************************************************************)
(* Claims about the text pipeline (checked under SpecText).                *)
(***************************************************************************)
\* The header lines of the document, read off the text itself: the positions
\* where a line starts with `--- ` and goes on with at least one character.
HeaderStarts ==
    {p \in 1..Len(doc) :
        /\ p = 1 \/ doc[p - 1] = "\n"
        /\ p + 4 <= Len(doc)
        /\ SubSeq(doc, p, p + 3) = <<"-", "-", "-", " ">>
        /\ doc[p + 4] /= "\n"}

\* The end of the line that starts at p.
LineEnd(p) ==
    IF \E q \in p..Len(doc) : doc[q] = "\n"
    THEN Least({q \in p..Len(doc) : doc[q] = "\n"}) - 1
    ELSE Len(doc)

\* The title of the header line at p, and its rank among the header lines.
TitleAt(p) == SubSeq(doc, p + 4, LineEnd(p))

RankOf(p) == Cardinality({q \in HeaderStarts : q <= p})

\* The section of the header line at p: the text up to the next header line.
SectionOf(p) ==
    LET later == {q \in HeaderStarts : q > p}
    IN  SubSeq(doc, LineEnd(p) + 1, IF later = {} THEN Len(doc) ELSE Least(later) - 1)

HasText(text) == \E i \in 1..Len(text) : text[i] \notin Whitespace

ParseDone == tImpl \in {"parse", "try_from"} /\ tPc = "done"

\* C8: a document with zero header lines fails with NoHeaders; a document
\* with at least one header line is never rejected as a group (NoHeaders,
\* HeaderBodyMismatch), and when every body is valid (the parse returns Ok;
\* for try_from, whenever every section holds some text) there are exactly
\* as many operations as header lines, the k-th named by the k-th title.
C8_OperationsMatchHeaders ==
    ParseDone =>
        /\ HeaderStarts = {} =>
                tResult.status = "Err" /\ tResult.kind = "NoHeaders"
        /\ HeaderStarts /= {} =>
                tResult.kind \notin {"NoHeaders", "HeaderBodyMismatch"}
        /\ (tImpl = "try_from" /\ HeaderStarts /= {}
                /\ \A p \in HeaderStarts : HasText(SectionOf(p)))
              => tResult.status = "Ok"
        /\ (HeaderStarts /= {} /\ tResult.status = "Ok") =>
                /\ Len(tOps) = Cardinality(HeaderStarts)
                /\ \A p \in HeaderStarts :
                        tOps[RankOf(p)].name = to_valid_ident(TitleAt(p))

\* C8 witness: a parse that returned two operations with different names.
C8_TwoOperationsParsed ==
    /\ ParseDone /\ tImpl = "parse"
    /\ tResult.status = "Ok"
    /\ Len(tOps) = 2
    /\ tOps[1].name /= tOps[2].name

\* A line of the form `-- <code> <args>` whose code is not `opt`.
IsUnknownDirective(line) ==
    /\ StartsWith(line, <<"-", "-", " ">>)
    /\ \E e \in 5..Len(line) :
          /\ line[e] = " "
          /\ \A i \in 4..(e - 1) : line[i] \notin Whitespace
          /\ SubSeq(line, 4, e - 1) /= <<"o", "p", "t">>
          /\ e < Len(line)

HasUnknownDirective(body) ==
    \E i \in 1..Len(Lines(body)) : IsUnknownDirective(Lines(body)[i])

\* C10: no operation is built from a body that holds a directive line with
\* an unrecognized code: such a body ends the operation with an error.
C10_UnknownDirectiveRejected ==
    tImpl = "parse" =>
        \A k \in 1..Len(tOps) : ~HasUnknownDirective(tBodies[k])


\* A line of the text is a comment or directive line: it starts with `--`.
HasCommentLine(text) ==
    \E i \in 1..Len(Lines(text)) :
        StartsWith(TrimStart(Lines(text)[i]), <<"-", "-">>)

\* C12: directive and comment lines are removed before the statements are
\* split: no statement an Operation holds (the text later given to prepare
\* and execute) has a directive or comment line.
C12_NoCommentInStatements ==
    \A k \in 1..Len(tOps) :
        \A i \in 1..Len(tOps[k].statements) :
            ~HasCommentLine(tOps[k].statements[i])


\* What is left of a line once its comment, from the first `--` on, is gone.
BeforeComment(line) ==
    IF \E i \in 1..(Len(line) - 1) : line[i] = "-" /\ line[i + 1] = "-"
    THEN SubSeq(line, 1, Least({i \in 1..(Len(line) - 1) : line[i] = "-" /\ line[i + 1] = "-"}) - 1)
    ELSE line

\* The text yields no statement: without its comments it is all whitespace.
YieldsNoStatement(text) ==
    \A i \in 1..Len(Lines(text)) : ~HasText(BeforeComment(Lines(text)[i]))

\* C14: an operation whose body yields zero non-empty statements once the
\* comments are stripped is rejected, the error names the operation and is
\* NoStatements (NoSteps in src/src) unless a directive of the body was
\* rejected first; no Operation with an empty statement list is produced.
C14_EmptyOperationRejected ==
    ParseDone =>
        /\ \A k \in 1..Len(tOps) : tOps[k].statements /= <<>>
        /\ \A p \in HeaderStarts :
              YieldsNoStatement(SectionOf(p)) =>
                  /\ Len(tOps) < RankOf(p)
                  /\ Len(tOps) = RankOf(p) - 1 =>
                        /\ tResult.operation = <<to_valid_ident(TitleAt(p))>>
                        /\ \/ tResult.status = "panic"
                           \/ tResult.kind \in {"NoStatements", "NoSteps", "OperatorError"}


\* The text is non-empty, starts and ends with no whitespace, holds at most
\* one `;` and ends with it.
IsTerminatedStatement(text) ==
    /\ text /= <<>>
    /\ text[1] \notin Whitespace
    /\ text[Len(text)] = ";"
    /\ Cardinality({i \in 1..Len(text) : text[i] = ";"}) <= 1

\* C24: every statement text an Operation holds is non-empty, trimmed, holds
\* at most one `;` and ends at `;`.
C24_StatementsAreTerminated ==
    \A k \in 1..Len(tOps) :
        \A i \in 1..Len(tOps[k].statements) :
            IsTerminatedStatement(tOps[k].statements[i])

\* The document has been split into headers and bodies.
SplitDone == tImpl \in {"parse", "try_from"} /\ tPc /= "start"

\* C25: once the text before the first header is discarded there are as many
\* bodies as header lines, the i-th body is the text between the i-th header
\* line and the next one (or the end of the document), and
\* HeaderBodyMismatch is never returned.
C25_BodiesMatchHeaders ==
    SplitDone =>
        /\ Len(tHeaders) = Cardinality(HeaderStarts)
        /\ Len(tBodies) = Cardinality(HeaderStarts)
        /\ \A p \in HeaderStarts : tBodies[RankOf(p)] = SectionOf(p)
        /\ tResult.kind /= "HeaderBodyMismatch"

\* A document with text before its first header and two headers, the first
\* with a body that holds text, was split.
C25_TwoSectionsSplit ==
    /\ SplitDone
    /\ Cardinality(HeaderStarts) = 2
    /\ 1 \notin HeaderStarts
    /\ \E p \in HeaderStarts : HasText(SectionOf(p))
    /\ Len(tBodies) = 2

(***************************************************************************)
(* Claims about the annotation scanners (checked under SpecScan).          *)
(***************************************************************************)
ScanDone == sOut.status /= "idle"

Padding == {<<>>, <<" ">>, <<" ", " ">>}

\* `::` and a doubled `::`
CastSeparators == {<<":", ":">>, <<":", ":", ":", ":">>}

\* text is `$1::token`, with whitespace around it.
IsAnnotationOf(text, token) ==
    \E before \in Padding, after \in Padding, cast \in CastSeparators :
        text = before \o <<"$", "1">> \o cast \o token \o after

\* Catalog names and a name outside the catalog, as they are written in SQL.
AnnotatedNames == {<<"I", "N", "T", "4">>, <<"T", "E", "X", "T", "[", "]">>}

ForeignNames == {<<"F", "O", "O">>}

\* What the catalog holds for a name: the postgres Type for get_param_types,
\* the binding type for the query macro.
CatalogEntry(name) ==
    IF sImpl = "get_param_types" THEN TypeOfName(name) ELSE param_type(name)

\* C4: for a text `$N::TYPE` with TYPE a catalog name, whatever the whitespace
\* around it and whether the `::` is doubled, the scan emits exactly one
\* annotation, and its type is TYPE.
C4_AnnotationYieldsItsType ==
    ScanDone =>
        \A name \in AnnotatedNames :
            IsAnnotationOf(sText, name) =>
                /\ sOut.status = "Ok"
                /\ sOut.parameter_types = <<name>>
                /\ sOut.types = <<CatalogEntry(name)>>

\* The placeholders of the text: a `$` followed by a digit.
Placeholders ==
    {p \in 1..(Len(sText) - 1) : sText[p] = "$" /\ sText[p + 1] \in Digits}

\* The position after the digits of the placeholder at p.
AfterDigits(p) ==
    IF \E q \in (p + 1)..Len(sText) : sText[q] \notin Digits
    THEN Least({q \in (p + 1)..Len(sText) : sText[q] \notin Digits})
    ELSE Len(sText) + 1

\* The placeholders not followed by a `:` annotation.
BarePlaceholders ==
    {p \in Placeholders : AfterDigits(p) > Len(sText) \/ sText[AfterDigits(p)] /= ":"}

Occurrence(p) == Cardinality({q \in Placeholders : q <= p})

\* C5: when the text holds a placeholder without a `:` annotation, the scan
\* completes (no panic, no error) and its result holds an Unknown entry for
\* that occurrence.
C5_BarePlaceholderIsUnknown ==
    (ScanDone /\ BarePlaceholders /= {}) =>
        /\ sOut.status = "Ok"
        /\ \A p \in BarePlaceholders :
              /\ Occurrence(p) <= Len(sOut.parameter_types)
              /\ sOut.parameter_types[Occurrence(p)] = unknown

\* The `$` signs whose annotation is missing: after the digits comes no `:`,
\* or colons and no name.
Unannotated ==
    {p \in 1..Len(sText) :
        /\ sText[p] = "$"
        /\ LET afterColons ==
                   IF \E q \in AfterDigits(p)..Len(sText) : sText[q] /= ":"
                   THEN Least({q \in AfterDigits(p)..Len(sText) : sText[q] /= ":"})
                   ELSE Len(sText) + 1
           IN  \/ afterColons = AfterDigits(p)
               \/ afterColons > Len(sText)
               \/ ~is_ascii_alphabetic(sText[afterColons])}

\* C6: the set of names is closed.  An annotation with a name outside the
\* catalog fails the scan (it does not return Ok with Unknown or a fallback
\* type), and a result holds the Unknown / fallback type only when some `$`
\* of the text has no annotation.
C6_ForeignNameFails ==
    ScanDone =>
        /\ \A name \in ForeignNames :
              IsAnnotationOf(sText, name) => sOut.status /= "Ok"
        /\ (sOut.status = "Ok" /\ \E k \in 1..Len(sOut.types) : sOut.types[k] = DynToSql)
              => Unannotated /= {}


\* The ordinal written at the placeholder at p: the digits after its `$`.
OrdinalAt(p) == DecimalValue(SubSeq(sText, p + 1, AfterDigits(p) - 1))

\* The distinct ordinals the text uses.
Ordinals == {OrdinalAt(p) : p \in Placeholders}

\* The placeholder at p is annotated `::name`, and the name ends there.
AnnotatedWith(p, name) ==
    LET rest == SubSeq(sText, AfterDigits(p), Len(sText))
        cast == <<":", ":">> \o name
    IN  /\ StartsWith(rest, cast)
        /\ Len(rest) > Len(cast) =>
              ~(is_ascii_alphanumeric(rest[Len(cast) + 1]) \/ rest[Len(cast) + 1] \in {"[", "]"})

\* C18: the parameter list the query macro generates has one parameter per
\* distinct placeholder ordinal of the query, and parameter k has the type
\* annotated on `$k`, however often and in whatever order the ordinals occur.
C18_OneParameterPerOrdinal ==
    (ScanDone /\ sOut.status = "Ok") =>
        /\ Len(sOut.types) = Cardinality(Ordinals)
        /\ \A p \in Placeholders : \A name \in AnnotatedNames :
              AnnotatedWith(p, name) =>
                  /\ OrdinalAt(p) \in 1..Len(sOut.types)
                  /\ sOut.types[OrdinalAt(p)] = CatalogEntry(name)

\* The characters of a type token: ASCII alphanumerics, `[` and `]`.
IsTokenCharacter(c) == is_ascii_alphanumeric(c) \/ c \in {"[", "]"}

\* text is `$1::` followed by a token that starts with a letter and by
\* nothing else, or by one closing space.
IsCastOf(text, token) ==
    /\ token /= <<>>
    /\ is_ascii_alphabetic(token[1])
    /\ \A i \in 1..Len(token) : IsTokenCharacter(token[i])
    /\ \/ text = <<"$", "1", ":", ":">> \o token
       \/ text = <<"$", "1", ":", ":">> \o token \o <<" ">>

\* The candidates for the token of a text: what follows its first four
\* characters, with and without its last character.
TokensOf(text) ==
    IF Len(text) < 5 THEN {}
    ELSE {SubSeq(text, 5, Len(text)), SubSeq(text, 5, Len(text) - 1)}

\* C21: while a type token is consumed every ASCII alphanumeric and `[`, `]`
\* extends it and any other character (or the end) closes it, and the entry
\* emitted is the whole token in upper case: `$1::int4` yields INT4.
C21_TokenIsWholeAndUpperCased ==
    ScanDone =>
        \A token \in TokensOf(sText) :
            IsCastOf(sText, token) => sOut.parameter_types = <<to_uppercase(token)>>

\* What the scan of the run emits for a text: get_param_types scans the
\* text as it is, the query macro scans it trimmed and collapsed.
Emitted(text) ==
    IF sImpl = "get_param_types" THEN parameter_types(sImpl, text)
    ELSE parameter_types(sImpl, CollapseRuns(Trim(text)))

\* C22: the end of the input flushes the open state as a non-matching
\* character does: the text and the text followed by one space emit the
\* same entries, for the scan of the run and for the bare character loop.
C22_EndFlushesLikeSpace ==
    ScanDone =>
        /\ sOut.parameter_types = Emitted(sText)
        /\ Emitted(sText) = Emitted(sText \o <<" ">>)
        /\ parameter_types(sImpl, sText) = parameter_types(sImpl, sText \o <<" ">>)

\* A scan ended inside a type token, which the end of the input closed.
C22_EndedInsideToken ==
    /\ ScanDone
    /\ sText = <<"$", "1", ":", ":", "T", "E", "X", "T", "[", "]">>
    /\ sOut.parameter_types = << <<"T", "E", "X", "T", "[", "]">> >>

\* C23: the output has exactly one entry per placeholder occurrence (a `$`
\* followed by at least one digit): none for a `$` without digits, and none
\* is lost for a placeholder that directly follows another one or a `$`.
C23_OneEntryPerPlaceholder ==
    ScanDone => Len(sOut.parameter_types) = Cardinality(Placeholders)

(***************************************************************************)
(* Claims about the emitted bindings (checked under SpecBind).             *)
(***************************************************************************)
DigitOf(p) == CASE p = 1 -> "1" [] p = 2 -> "2" [] p = 3 -> "3" [] p = 4 -> "4"

\* The body holds the directive line `-- opt $p`.
HasOptDirective(body, p) ==
    \E i \in 1..Len(Lines(body)) :
        Lines(body)[i] = <<"-", "-", " ", "o", "p", "t", " ", "$", DigitOf(p)>>

BindingEmitted == bPc = "done" /\ bOperators.status = "Ok"

\* C11: in the emitted binding, the parameter at 1-based position p is
\* optional if and only if the body holds a directive `-- opt $p`.
C11_OptionalIffDirective ==
    BindingEmitted =>
        \A p \in 1..Len(bFields) :
            bFields[p].optional <=> HasOptDirective(bBody, p)

\* The argument of an `opt` directive line, or <<>> for another line.
OptArgument(line) ==
    IF StartsWith(line, <<"-", "-", " ", "o", "p", "t", " ">>)
    THEN <<Trim(SubSeq(line, 8, Len(line)))>>
    ELSE <<>>

\* The argument is exactly `$` followed by a decimal number.
IsPlaceholderArgument(argument) ==
    /\ Len(argument) >= 2
    /\ argument[1] = "$"
    /\ \A i \in 2..Len(argument) : argument[i] \in Digits

\* The lines of the body that are `opt` directives with a malformed argument.
MalformedDirectives(body) ==
    {i \in 1..Len(Lines(body)) :
        /\ OptArgument(Lines(body)[i]) /= <<>>
        /\ ~IsPlaceholderArgument(OptArgument(Lines(body)[i])[1])}

OperatorsCollected == bPc /= "operators" /\ bOperators /= NotCollected

\* C26: an `opt` directive whose argument is not `$` followed by a decimal
\* number is malformed: the operators of a body that holds one are never
\* collected as Ok, and when it is the first directive of the body the
\* result is the OperatorError with InvalidParams.
C26_MalformedDirectiveRejected ==
    (OperatorsCollected /\ MalformedDirectives(Trim(bBody)) /= {}) =>
        /\ bOperators.status /= "Ok"
        /\ 1 \in MalformedDirectives(Trim(bBody)) => bOperators.status = "Err"

\* C27: the directive `-- opt $0` is rejected with an OperatorError: the
\* conversion of position 0 to an index neither panics nor wraps.
C27_PositionZeroRejected ==
    (OperatorsCollected /\ Lines(Trim(bBody)) /= <<>>
        /\ Head(Lines(Trim(bBody))) = LineOptZero) =>
            bOperators.status = "Err"

\* C29: the binding type Operation::parameter_tokens emits for a parameter
\* is the one parameter_to_type emits for its type, and every type of a
\* built Operation has an entry (the fallback arm is not reached).
C29_TypeTablesAgree ==
    BindingEmitted =>
        \A p \in 1..Len(bFields) :
            /\ bFields[p].type = parameter_to_type(bParams[p])
            /\ bFields[p].type /= "unreachable!()"

(***************************************************************************)
(* Claims about the synthetic values (checked under SpecData).             *)
(***************************************************************************)
TemporalScalars == {"TIMESTAMP", "TIMESTAMPTZ", "DATE", "TIME"}

TemporalTypes == TemporalScalars \cup {ArrayOf(t) : t \in TemporalScalars}

\* C13: the value generated for a temporal type is a fixed literal: calls
\* made at different times return the same value.
C13_TemporalValuesFixed ==
    gType \in TemporalTypes =>
        \A i \in 1..Len(gCalls) : \A j \in 1..Len(gCalls) : gCalls[i] = gCalls[j]

\* C28: the value synthesized for a TEXT, VARCHAR or BYTEA scalar has
\* length 32 and the one for an array type has exactly 4 elements.
C28_SyntheticLengths ==
    \A i \in 1..Len(gCalls) :
        /\ gType \in {"TEXT", "VARCHAR", "BYTEA"} => gCalls[i].data.len = 32
        /\ gType \in {ArrayOf(t) : t \in ScalarTypes} => gCalls[i].data.len = 4

(***************************************************************************)
(* Claims about the shared test database (checked under SpecTeardown).     *)
(***************************************************************************)
\* Test t has finished: its TestTeardown is dropped, or it ended in a panic
\* before it got one.
Finished(t) == tdPc[t] \in {"dropped", "removing", "panicked"}

\* C15: the container is removed only after the last test dropped its
\* TestTeardown: once it is removed no test is still to start, holds the
\* client, or uses it.
C15_TeardownAfterLastTest ==
    container = "removed" => \A t \in DOMAIN tdPc : Finished(t)

(***************************************************************************)
(* Claims about migrations (checked under SpecMigrations).                 *)
(***************************************************************************)
\* The file name ends in ".sql" after at least one other character.
EndsInSql(name) ==
    /\ Len(name) >= 5
    /\ SubSeq(name, Len(name) - 3, Len(name)) = <<".", "s", "q", "l">>

\* The directory's files with extension `sql`.
SqlFiles == {mListing[i] : i \in {j \in 1..Len(mListing) : EndsInSql(mListing[j])}}

\* a comes before b in name order: at the first position where they differ
\* a has the smaller byte, or a is a proper prefix of b.
NameBefore(a, b) ==
    \/ /\ Len(a) < Len(b)
       /\ SubSeq(b, 1, Len(a)) = a
    \/ \E i \in 1..Min(Len(a), Len(b)) :
          /\ SubSeq(a, 1, i - 1) = SubSeq(b, 1, i - 1)
          /\ Byte(a[i]) < Byte(b[i])

Called == {mCalls[i] : i \in 1..Len(mCalls)}

\* C16: the batch_execute calls are files of the directory with extension
\* `sql` in strictly ascending name order (so each at most once), none is
\* passed over for a later one, a run that returns Ok executed all of them,
\* and a run that returns ExecuteMigration made its last call for the
\* failed migration and none after it.
C16_MigrationsInNameOrder ==
    /\ Called \subseteq SqlFiles
    /\ \A i \in 1..Len(mCalls) : \A j \in 1..Len(mCalls) :
          i < j => NameBefore(mCalls[i], mCalls[j])
    /\ \A f \in SqlFiles : \A i \in 1..Len(mCalls) :
          NameBefore(f, mCalls[i]) => f \in Called
    /\ mResult = "Ok" => mPc = "done" /\ Called = SqlFiles
    /\ mResult = "ExecuteMigration" =>
          /\ mPc = "done"
          /\ mCalls /= <<>>
          /\ mCalls[Len(mCalls)] = mEntries[mIdx]

\* A run over a directory listed out of name order failed at its second
\* migration and left a later one alone.
C16_FailedAtSecondMigration ==
    /\ mResult = "ExecuteMigration"
    /\ Len(mCalls) = 2
    /\ SqlFiles \ Called /= {}
    /\ \E i \in 1..Len(mListing) : \E j \in 1..Len(mListing) :
          i < j /\ NameBefore(mListing[j], mListing[i])

(***************************************************************************)
(* Claims about SqlError (checked under SpecError).                        *)
(***************************************************************************)
\* The database code the method looks for.
CodeOf(method) ==
    IF method = "fk_violation" THEN "FOREIGN_KEY_VIOLATION" ELSE "UNIQUE_VIOLATION"

\* The original result is an error carrying the code of the method.
Carries(method) == eSelf = SqlResult(FALSE, "none", <<CodeOf(method)>>)

\* C17: a call returns Err(f()), running f once, exactly when the result is
\* an error with the code of the method; otherwise it returns Ok with the
\* original result and does not run f.
C17_MapsOnlyItsViolation ==
    \A i \in 1..Len(eChain) :
        LET call == eChain[i] IN
        IF Carries(call.method)
        THEN call.returned = Mapped(FALSE, NoSqlResult, call.f, 1)
        ELSE call.returned = Mapped(TRUE, eSelf, "none", 0)

\* A unique violation went through fk_violation untouched and was then
\* mapped by unique_violation.
C17_PassedThenMapped ==
    /\ Len(eChain) = 2
    /\ eSelf.code = <<"UNIQUE_VIOLATION">>
    /\ eChain[1].method = "fk_violation" /\ eChain[1].returned.is_ok
    /\ eChain[2].method = "unique_violation" /\ ~eChain[2].returned.is_ok

(***************************************************************************)
(* Claims about the command line tool (checked under SpecDatabase).        *)
(***************************************************************************)
\* C30: every container Database::new started is removed with
\* `docker rm --force` on every exit path: main never ends with a started
\* container for which the removal was not run.
C30_StartedContainerRemoved ==
    (dPc = "exited" /\ dContainer /= "absent") => dRemoveRuns > 0

====
